---- MODULE Spec2Model ----
(***************************************************************************)
(* Model of the bias-news backend: the bounded concurrency mapper of       *)
(* routes/articles.ts, the ingestion handler POST /api/articles/fetch,     *)
(* the enrichment of services/newsAPI.ts, the scoring adapter of           *)
(* services/biasAnalyzer.ts and the narrative clustering of                *)
(* routes/narratives.ts.                                                   *)
(*                                                                         *)
(* An optional JavaScript value (undefined / null / a hole of an array)    *)
(* is the empty set, a present value v is the singleton {v}.               *)
(***************************************************************************)
EXTENDS Integers, Sequences, FiniteSets, TLC

VARIABLES
    arr,          \* mapWithConcurrency: the input array (0-based function)
    limit,        \* mapWithConcurrency: the concurrency limit
    i,            \* mapWithConcurrency: next index to start
    active,       \* mapWithConcurrency: started workers whose finally() has not run
    results,      \* mapWithConcurrency: the pre-sized slot array
    wstate,       \* position of each worker's promise chain
    wval,         \* value a fulfilled worker promise carries to its then()
    resolveCount, \* how many times resolve(results) was called
    pc,           \* position of the caller (a request handler or a bare call)
    arts,         \* the article objects at hand (0-based array)
    az,           \* per article: the position and outcome of its analyzeArticle call
    hasKey,       \* GOOGLE_AI_KEY is set in the environment
    enableFullScrape, \* NewsAPIService.enableFullScrape
    ff,           \* per article: the page fetch formatArticles fired and forgot
    enr,          \* enrichArticles: queue, index and what each pool worker fetches
    store,        \* the rows of the articles table
    loaded,       \* clusterNarratives: the article list of a first invocation
    clusters,     \* clusterNarratives: the cluster list the first invocation returned
    loaded2,      \* the same articles as given to a second invocation
    clusters2     \* the cluster list the second invocation returned

mapVars == <<arr, limit, i, active, results, wstate, wval, resolveCount>>

anVars == <<arts, az, hasKey>>

fetchVars == <<enableFullScrape, ff, enr, store>>

narrVars == <<loaded, clusters, loaded2, clusters2>>

vars == <<arr, limit, i, active, results, wstate, wval, resolveCount, pc,
          arts, az, hasKey, enableFullScrape, ff, enr, store,
          loaded, clusters, loaded2, clusters2>>

(* enrichArticles before it is called: nothing queued, no pool worker *)
EnrIdle == [queue |-> <<>>, index |-> 0, cur |-> <<>>]

(* ------------------------------ bounds --------------------------------- *)
MaxN == 3
MaxLimit == 2
MaxArts == 1
MaxFeed == 4
MaxQueue == 3
MaxPool == 2
MaxBatch == 2

Items == {"x", "y"}

Min(a, b) == IF a < b THEN a ELSE b
Max(a, b) == IF a > b THEN a ELSE b

(* A 0-based array of length n over S *)
Arrays(S, n) == [0 .. n - 1 -> S]
Len0(a) == Cardinality(DOMAIN a)

(* --------------------------- mapWithConcurrency ------------------------ *)

WStates == {"idle", "running", "fulfilled", "rejected", "thenDone", "caught", "settled"}

(* The value the generic worker produces for item arr[idx] at index idx *)
WorkerValue(item, idx) == <<item, idx>>

(* A launch loop that ignores the limit *)
RECURSIVE LaunchLoopUnbounded(_, _, _, _, _)
LaunchLoopUnbounded(ii, act, lim, n, started) ==
    IF ii < n
    THEN LaunchLoopUnbounded(ii + 1, act + 1, lim, n, started \cup {ii})
    ELSE [i |-> ii, active |-> act, started |-> started]

(* The indexes the while loop of launch() starts, from counters (ii, act):
   while (active < limit && i < arr.length) { idx = i++; active++; ... } *)
RECURSIVE LaunchLoop(_, _, _, _, _)
LaunchLoop(ii, act, lim, n, started) ==
    IF act < lim /\ ii < n
    THEN LaunchLoop(ii + 1, act + 1, lim, n, started \cup {ii})
    ELSE [i |-> ii, active |-> act, started |-> started]

(* A launch() that resolves as soon as everything is started *)
LaunchResolvesOnceStarted(ii, act, lim, n) ==
    IF ii >= n
    THEN [i |-> ii, active |-> act, started |-> {}, resolve |-> 1]
    ELSE LaunchLoop(ii, act, lim, n, {}) @@ [resolve |-> 0]

(* launch(): resolve when everything is started and nothing is active,
   otherwise start workers up to the limit *)
Launch(ii, act, lim, n) ==
    IF ii >= n /\ act = 0
    THEN [i |-> ii, active |-> act, started |-> {}, resolve |-> 1]
    ELSE LaunchLoop(ii, act, lim, n, {}) @@ [resolve |-> 0]

(* A then() that appends in completion order instead of writing slot idx *)
ThenAppend(res, idx, r) ==
    LET free == {k \in DOMAIN res : res[k] = {}}
        first == CHOOSE k \in free : \A m \in free : k <= m
    IN  [res EXCEPT ![first] = {r}]

(* then(r => { results[idx] = r; }) *)
ThenWrite(res, idx, r) == [res EXCEPT ![idx] = {r}]

(* mapWithConcurrency(arr, limit, worker): allocate the slots and call launch() *)
MapCall(a, lim) ==
    LET n == Len0(a)
        l == Launch(0, 0, lim, n)
    IN  /\ arr' = a
        /\ limit' = lim
        /\ results' = [k \in 0 .. n - 1 |-> {}]
        /\ i' = l.i
        /\ active' = l.active
        /\ wstate' = [k \in 0 .. n - 1 |-> IF k \in l.started THEN "running" ELSE "idle"]
        /\ wval' = [k \in 0 .. n - 1 |-> {}]
        /\ resolveCount' = l.resolve

(* ----------------------- optional values, text ------------------------- *)

None == {}
Some(v) == {v}
Get(s) == CHOOSE x \in s : TRUE

(* v || d for a number: undefined, null and 0 are falsy *)
OrNum(s, d) == IF s = {} \/ s = {0} THEN d ELSE Get(s)
(* v || d for a string: undefined, null and "" are falsy *)
OrStr(s, d) == IF s = {} \/ s = {""} THEN d ELSE Get(s)
(* v || d for an array: only undefined and null are falsy *)
OrArr(s, d) == IF s = {} THEN d ELSE Get(s)

(* A text is kept by its shape: lead / trail whitespace characters around
   body characters that start and end with a non-blank one; ind tells that
   it matches the truncation indicator of needsEnrichment; origin names
   where the characters come from and cut tells that analyzeArticle has
   truncated it. *)
Text(lead, body, trail, ind, origin) ==
    [lead |-> lead, body |-> body, trail |-> trail, ind |-> ind, origin |-> origin,
     cut |-> FALSE]

(* content.length *)
Length(c) == c.lead + c.body + c.trail
(* content.trim().length *)
TrimLength(c) == c.body

(* ---------------------------- biasAnalyzer ----------------------------- *)

Dims == {"ideologicalStance", "factualGrounding", "framingChoices",
         "emotionalTone", "sourceTransparency"}

(* The label enum of each dimension in biasScoresSchema *)
LabelEnum(d) ==
    CASE d = "ideologicalStance" ->
            {"far-left", "left", "center-left", "center", "center-right", "right", "far-right"}
      [] d = "factualGrounding" -> {"poor", "moderate", "good", "excellent"}
      [] d = "framingChoices" -> {"misleading", "biased", "balanced", "objective"}
      [] d = "emotionalTone" -> {"inflammatory", "emotional", "neutral", "objective"}
      [] d = "sourceTransparency" -> {"vague", "limited", "clear", "excellent"}

SHORT_CONTENT == 240
MAX_CHARS == 10000
(* "\n[TRUNCATED_FOR_ANALYSIS]".length *)
TruncMarkLen == 25

(* Confidences are kept in hundredths: 0.3 is 30, 1 is 100. *)

(* A clamp that bounds a score from above only *)
clampScoreUpperOnly(score) == Min(100, score)

(* clampScore = score => Math.max(0, Math.min(100, score)) *)
clampScore(score) == Max(0, Min(100, score))
(* clampConfidence = conf => Math.max(0, Math.min(1, conf)) *)
clampConfidence(conf) == Max(0, Min(100, conf))

(* One dimension of the mock scores *)
MockDim(score, label, phrase, reasoning) ==
    [score |-> Some(score), label |-> Some(label), confidence |-> Some(30),
     highlightedPhrases |-> Some(<<phrase>>), reasoning |-> Some(reasoning),
     confidenceInterval |-> None]

(* getMockBiasScores(reason) *)
getMockBiasScores(reason) ==
    [ideologicalStance |-> MockDim(50, "center", "AI analysis unavailable",
                                   "Unable to perform AI analysis due to API limitations. Using neutral baseline scores."),
     factualGrounding |-> MockDim(60, "moderate", "Source verification pending",
                                  "Article appears to have standard news structure but source verification requires AI analysis."),
     framingChoices |-> MockDim(55, "moderate", "Framing analysis pending",
                                "Standard news format detected but detailed framing analysis requires AI processing."),
     emotionalTone |-> MockDim(65, "moderate", "Tone analysis pending",
                               "Article appears to use standard news language but emotional tone analysis requires AI."),
     sourceTransparency |-> MockDim(55, "moderate", "Transparency analysis pending",
                                    "Standard attribution patterns detected but detailed transparency analysis requires AI."),
     overallBiasLevel |-> Some(57),
     primarySources |-> Some(<<>>),
     analyzedAt |-> Some("now"),
     analysisStatus |-> Some(reason),
     isFallback |-> Some(TRUE)]

(* An interval whose ends are not held inside [0, 100] *)
makeCIUnclamped(score, confidence) ==
    LET width == Max(4, (40 * (100 - confidence) + 50) \div 100)
        half == (width + 1) \div 2
        lower == score - half
        upper == score + half
    IN  [lower |-> lower, upper |-> upper, width |-> upper - lower]

(* makeCI(score, confidence): Math.round is floor(x + 1/2) *)
makeCI(score, confidence) ==
    LET width == Max(4, (40 * (100 - confidence) + 50) \div 100)
        half == (width + 1) \div 2
        lower == Max(0, score - half)
        upper == Min(100, score + half)
    IN  [lower |-> lower, upper |-> upper, width |-> upper - lower]

(* attachConfidenceIntervals(analysis) *)
attachConfidenceIntervals(analysis) ==
    [k \in DOMAIN analysis |->
        IF k \in Dims /\ analysis[k].score # {} /\ analysis[k].confidence # {}
        THEN [analysis[k] EXCEPT !.confidenceInterval =
                 Some(makeCI(Get(analysis[k].score), Get(analysis[k].confidence)))]
        ELSE analysis[k]]

(* A raw entry of primarySources: a non-string, or the string
   scheme://host:port/path?query with any part possibly empty. *)
RawUrl(str, scheme, host, port, path, query) ==
    [str |-> str, scheme |-> scheme, host |-> host, port |-> port,
     path |-> path, query |-> query]

MaxSources == 15

(* /^[a-z0-9.-]+\.[a-z]{2,}$/ on the host part: a dotted name with a
   alphabetic top-level domain *)
BareDomainHost(host) == host \in {"example.com", "other.org"}

(* lower.includes('/api/articles/') *)
InternalPath(path) == path \in {"/api/articles/1"}

(* The body of the for loop of sanitizePrimarySources for one entry: the
   final URL string (kept by its parts), or nothing when the entry is
   skipped *)
SanitizeOne(raw) ==
    IF ~raw.str THEN None
    ELSE IF raw.scheme = "" /\ raw.host = "" /\ raw.port = "" /\ raw.path = "" /\ raw.query = ""
    THEN None
    ELSE IF (raw.host = "localhost" /\ raw.port # "")
            \/ InternalPath(raw.path)
            \/ (raw.scheme = "" /\ raw.host = "" /\ raw.path # "")
    THEN None
    ELSE IF raw.scheme \notin {"http", "https"}
            /\ ~(/\ raw.scheme = ""
                 /\ BareDomainHost(raw.host)
                 /\ raw.port = ""
                 /\ (raw.query # "" => raw.path # ""))
    THEN None
    ELSE IF raw.host = "" \/ raw.host = "localhost"
    THEN None
    ELSE Some([scheme |-> IF raw.scheme = "" THEN "https" ELSE raw.scheme,
               host |-> raw.host,
               port |-> raw.port,
               path |-> IF raw.path = "" THEN "/" ELSE raw.path])

RECURSIVE SanitizeLoop(_, _)
SanitizeLoop(sources, cleaned) ==
    IF sources = <<>> THEN cleaned
    ELSE LET u == SanitizeOne(Head(sources))
         IN  IF u = {} \/ \E k \in 1 .. Len(cleaned) : cleaned[k] = Get(u)
             THEN SanitizeLoop(Tail(sources), cleaned)
             ELSE SanitizeLoop(Tail(sources), Append(cleaned, Get(u)))

(* sanitizePrimarySources(sources): sources is absent when it is not an array *)
sanitizePrimarySources(sources) ==
    IF sources = {} THEN <<>>
    ELSE LET cleaned == SanitizeLoop(Get(sources), <<>>)
         IN  SubSeq(cleaned, 1, Min(Len(cleaned), MaxSources))

(* analysis.<dim>?.<field> *)
DimField(analysis, d, f) == IF analysis[d] = {} THEN None ELSE Get(analysis[d])[f]

(* A validated dimension without its defaults *)
ValidDimNoDefault(analysis, d) ==
    [score |-> DimField(analysis, d, "score"),
     label |-> DimField(analysis, d, "label"),
     confidence |-> DimField(analysis, d, "confidence"),
     highlightedPhrases |-> DimField(analysis, d, "highlightedPhrases"),
     reasoning |-> DimField(analysis, d, "reasoning"),
     confidenceInterval |-> None]

(* One dimension of validatedAnalysis *)
ValidDim(analysis, d) ==
    [score |-> Some(clampScore(OrNum(DimField(analysis, d, "score"), 50))),
     label |-> Some(OrStr(DimField(analysis, d, "label"), "moderate")),
     confidence |-> Some(clampConfidence(OrNum(DimField(analysis, d, "confidence"), 50))),
     highlightedPhrases |-> Some(OrArr(DimField(analysis, d, "highlightedPhrases"), <<>>)),
     reasoning |-> Some(OrStr(DimField(analysis, d, "reasoning"), "Analysis incomplete")),
     confidenceInterval |-> None]

(* validateAndFormatBiasScores(analysis), analysis being an object *)
validateAndFormatBiasScores(analysis) ==
    [ideologicalStance |-> ValidDim(analysis, "ideologicalStance"),
     factualGrounding |-> ValidDim(analysis, "factualGrounding"),
     framingChoices |-> ValidDim(analysis, "framingChoices"),
     emotionalTone |-> ValidDim(analysis, "emotionalTone"),
     sourceTransparency |-> ValidDim(analysis, "sourceTransparency"),
     overallBiasLevel |-> Some(clampScore(OrNum(analysis.overallBiasLevel, 50))),
     primarySources |-> Some(sanitizePrimarySources(analysis.primarySources)),
     analyzedAt |-> Some(OrStr(analysis.analyzedAt, "now")),
     analysisStatus |-> None,
     isFallback |-> None]

(* An object none of whose BiasScores properties is set; reading the
   properties of a JSON number, string, boolean or array gives the same *)
EmptyObject ==
    [ideologicalStance |-> None, factualGrounding |-> None, framingChoices |-> None,
     emotionalTone |-> None, sourceTransparency |-> None,
     overallBiasLevel |-> None, primarySources |-> None, analyzedAt |-> None]

(* A JSON value: null, a primitive, or an object *)
JsonNull == [kind |-> "null", obj |-> EmptyObject]
JsonPrimitive == [kind |-> "prim", obj |-> EmptyObject]
JsonObject(o) == [kind |-> "obj", obj |-> o]

(* The text of a scorer response: empty (no text property, a text that is
   no string, a text() that throws), not JSON, or the JSON of a value *)
EmptyText == [kind |-> "empty", value |-> JsonNull]
GarbageText == [kind |-> "garbage", value |-> JsonNull]
JsonText(v) == [kind |-> "json", value |-> v]

(* A parse that accepts any text and reads an empty object from what is
   not JSON *)
JSONparseLenient(text) ==
    IF text.kind = "json" THEN [threw |-> FALSE, value |-> text.value]
    ELSE [threw |-> FALSE, value |-> JsonPrimitive]

(* JSON.parse(text) *)
JSONparse(text) ==
    IF text.kind = "json" THEN [threw |-> FALSE, value |-> text.value]
    ELSE [threw |-> TRUE, value |-> JsonNull]

(* hash = ((hash << 5) - hash) + char; hash = hash & hash: 31 * hash + char
   wrapped to a signed 32-bit integer, computed on 16-bit halves *)
HashStep(hash, char) ==
    LET u == IF hash < 0 THEN hash + 2147483647 + 1 ELSE hash
        top == IF hash < 0 THEN 32768 ELSE 0
        lo == u % 65536
        hi == (u \div 65536) + top
        l2 == 31 * lo + char
        h2 == (31 * hi + (l2 \div 65536)) % 65536
    IN  IF h2 >= 32768
        THEN ((h2 - 65536) * 65536) + (l2 % 65536)
        ELSE (h2 * 65536) + (l2 % 65536)

RECURSIVE HashLoop(_, _)
HashLoop(url, hash) ==
    IF url = <<>> THEN hash ELSE HashLoop(Tail(url), HashStep(hash, Head(url)))

(* n.toString(36), as the sequence of its digits *)
RECURSIVE ToBase36(_)
ToBase36(n) == IF n < 36 THEN <<n>> ELSE ToBase36(n \div 36) \o <<n % 36>>

(* generateId(url) = Math.abs(hash).toString(36); a url is the sequence of
   its character codes *)
generateId(url) ==
    LET hash == HashLoop(url, 0)
    IN  ToBase36(IF hash < 0 THEN 0 - hash ELSE hash)

(* An article object; headline is kept by its length *)
Article(url, headline, content) ==
    [id |-> generateId(url), url |-> url, headline |-> headline, content |-> content,
     biasScores |-> None, primarySources |-> <<>>]

(* The state of an analyzeArticle call: its position, the scores it
   returned, the number of generateContent calls it made, what the scorer
   answered, the content it was given and the content it put in the prompt *)
AzIdle ==
    [pc |-> "idle", result |-> None, calls |-> 0, resp |-> None,
     given |-> None, sent |-> None]

(* The short-content guard without the trim *)
TooShortUntrimmed(content) == Length(content) < SHORT_CONTENT

(* article.content.trim().length < 240 *)
TooShort(content) == TrimLength(content) < SHORT_CONTENT

(* article.content.substring(0, MAX_CHARS) + "\n[TRUNCATED_FOR_ANALYSIS]" when
   the content is longer than MAX_CHARS; the content is not blank here *)
Truncate(c) ==
    IF Length(c) > MAX_CHARS
    THEN [c EXCEPT !.lead = IF c.lead < MAX_CHARS THEN c.lead ELSE MAX_CHARS + 1,
                   !.body = IF c.lead < MAX_CHARS
                            THEN MAX_CHARS + TruncMarkLen - c.lead
                            ELSE TruncMarkLen - 1,
                   !.trail = 0,
                   !.cut = TRUE]
    ELSE c

(* A scorer answer: the call failed, or it returned a text *)
CallFailed == [failed |-> TRUE, text |-> EmptyText]
CallReturned(text) == [failed |-> FALSE, text |-> text]

(* analyzeArticle up to its first await: the guards, the truncation of
   article.content, the prompt, getClient() and the generateContent call *)
AnalyzeSync(article, key) ==
    LET call == [AzIdle EXCEPT !.given = Some(article.content)]
    IN
    IF article.headline = 0 \/ Length(article.content) = 0
    THEN [article |-> article, az |-> [call EXCEPT !.pc = "threw"]]
    ELSE IF TooShort(article.content)
    THEN [article |-> article,
          az |-> [call EXCEPT
                    !.pc = "returned",
                    !.result = Some([getMockBiasScores("fallback-empty") EXCEPT
                        !.ideologicalStance.reasoning =
                            Some("Content too short for reliable AI analysis")])]]
    ELSE LET cut == [article EXCEPT !.content = Truncate(@)]
         IN  IF ~key
             THEN [article |-> cut,
                   az |-> [call EXCEPT
                             !.pc = "returned",
                             !.sent = Some(cut.content),
                             !.resp = Some(CallFailed),
                             !.result = Some(attachConfidenceIntervals(
                                               getMockBiasScores("fallback-api")))]]
             ELSE [article |-> cut,
                   az |-> [call EXCEPT !.pc = "awaiting", !.calls = 1,
                                       !.sent = Some(cut.content)]]

(* A success path that leaves the fallback flag set *)
MarkAiStillFallback(validated) ==
    [validated EXCEPT !.analysisStatus = Some("ai"), !.isFallback = Some(TRUE)]

(* validatedAnalysis.analysisStatus = 'ai'; validatedAnalysis.isFallback = false *)
MarkAi(validated) ==
    [validated EXCEPT !.analysisStatus = Some("ai"), !.isFallback = Some(FALSE)]

(* The inner try of analyzeArticle on the text of the response *)
AfterResponse(text) ==
    LET parsed == JSONparse(text)
    IN  IF parsed.threw \/ parsed.value.kind = "null"
        THEN attachConfidenceIntervals(getMockBiasScores("fallback-parse"))
        ELSE attachConfidenceIntervals(
                 MarkAi(validateAndFormatBiasScores(parsed.value.obj)))

(* generateContent rejects (network, quota, timeout): the outer catch *)
ScorerReject(k) ==
    /\ az[k].pc = "awaiting"
    /\ az' = [az EXCEPT ![k] = [@ EXCEPT
                !.pc = "returned",
                !.resp = Some(CallFailed),
                !.result = Some(attachConfidenceIntervals(
                                  getMockBiasScores("fallback-api")))]]
    /\ UNCHANGED <<narrVars, mapVars, pc, arts, hasKey, fetchVars>>

(* generateContent returns a response with the given text *)
ScorerRespond(k, text) ==
    /\ az[k].pc = "awaiting"
    /\ az' = [az EXCEPT ![k] = [@ EXCEPT
                !.pc = "returned",
                !.resp = Some(CallReturned(text)),
                !.result = Some(AfterResponse(text))]]
    /\ UNCHANGED <<narrVars, mapVars, pc, arts, hasKey, fetchVars>>

(* ------------------------------ newsAPI -------------------------------- *)

(* An article of the GNews response, kept by the lengths of its trimmed
   title, of the text of its content, of a trailing "[+N chars]" marker and
   of its description; ell tells that the text ends with an ellipsis and
   descIn that the content includes the description. *)
RawArticle(title, text, ell, marker, desc, descIn) ==
    [title |-> title, text |-> text, ell |-> ell, marker |-> marker,
     desc |-> desc, descIn |-> descIn]

(* article.content.trim().length: the text, a blank and the marker *)
RawTrimLength(raw) ==
    raw.text + (IF raw.text > 0 /\ raw.marker > 0 THEN 1 ELSE 0) + raw.marker

(* The filter of formatArticles *)
Sufficient(raw) == RawTrimLength(raw) >= 50 /\ raw.title >= 10

(* truncIndicators.some(r => r.test(rawContent)) *)
isLikelyTruncated(raw) == raw.marker > 0 \/ raw.ell

(* rawContent of formatArticles: the description appended when the content
   looks truncated and when it is shorter than 400, then a trailing marker
   removed *)
RawContent(raw) ==
    LET len0 == RawTrimLength(raw)
        len1 == len0 + (IF isLikelyTruncated(raw) /\ raw.desc > 0 /\ ~raw.descIn
                        THEN 1 + raw.desc ELSE 0)
        len2 == len1 + (IF len1 < 400 /\ raw.desc > 0 THEN 1 + raw.desc ELSE 0)
        appended == len2 > len0
    IN  IF ~appended /\ raw.marker > 0
        THEN Text(0, raw.text, 0, raw.ell, "stub")
        ELSE Text(0, len2, 0, IF appended THEN raw.marker > 0 ELSE raw.ell, "stub")

(* The condition under which formatArticles fires fetchFullArticle *)
FiresScrape(raw, url, scrape) ==
    scrape /\ url # <<>> /\ (isLikelyTruncated(raw) \/ Length(RawContent(raw)) < 800)

(* A test that looks at the length only *)
needsEnrichmentByLength(a) == Length(a.content) < 800

(* needsEnrichment(a) *)
needsEnrichment(a) == a.content.ind \/ Length(a.content) < 800

(* full && full.length > content.length * 1.2 *)
Replaces(full, content) == full # None /\ 5 * Length(Get(full)) > 6 * Length(content)

(* the then() of both page fetches: content = full when it is longer *)
Enriched(article, full) ==
    IF Replaces(full, article.content)
    THEN [article EXCEPT !.content = Get(full)]
    ELSE article

(* articles.filter(a => this.needsEnrichment(a)), as indexes, from index k on *)
RECURSIVE EnrichQueue(_, _)
EnrichQueue(articles, k) ==
    IF k >= Len0(articles) THEN <<>>
    ELSE (IF needsEnrichment(articles[k]) THEN <<k>> ELSE <<>>)
         \o EnrichQueue(articles, k + 1)

(* The synchronous part of enrichArticles(articles, concurrency): the queue,
   and each pool worker taking queue[index++] until the queue is empty *)
EnrichStart(articles, concurrency, scrape) ==
    LET queue == IF scrape THEN EnrichQueue(articles, 0) ELSE <<>>
    IN  [queue |-> queue,
         index |-> Min(concurrency, Len(queue)),
         cur |-> [w \in 1 .. concurrency |->
                    IF scrape /\ w <= Len(queue) THEN Some(queue[w]) ELSE None]]

(* ------------------------- POST /api/articles/fetch -------------------- *)

(* The entries of a GNews response that pass the filter of formatArticles *)
RECURSIVE KeptRaws(_)
KeptRaws(raws) ==
    IF raws = <<>> THEN <<>>
    ELSE (IF Sufficient(Head(raws).raw) THEN <<Head(raws)>> ELSE <<>>)
         \o KeptRaws(Tail(raws))

(* formatArticles(articles): the formatted articles *)
formatArticles(raws) ==
    LET kept == KeptRaws(raws)
    IN  [k \in 0 .. Len(kept) - 1 |->
            Article(kept[k + 1].url, kept[k + 1].raw.title, RawContent(kept[k + 1].raw))]

(* formatArticles(articles): the page fetches it fires and forgets *)
FiredScrapes(raws, scrape) ==
    LET kept == KeptRaws(raws)
    IN  [k \in 0 .. Len(kept) - 1 |->
            IF FiresScrape(kept[k + 1].raw, kept[k + 1].url, scrape)
            THEN "inflight" ELSE "none"]

(* The row saveArticles writes for an article *)
Row(a) ==
    [id |-> a.id, url |-> a.url, headline |-> a.headline, content |-> a.content,
     biasScores |-> a.biasScores, primarySources |-> a.primarySources]

(* INSERT OR IGNORE of one row: a row in conflict keeps its place *)
InsertOrIgnore(rows, row) ==
    IF \E r \in rows : r.id = row.id \/ r.url = row.url THEN rows ELSE rows \cup {row}

(* INSERT OR REPLACE of one row: the rows in conflict on the primary key id
   or on the unique url are deleted *)
InsertOrReplace(rows, row) ==
    {r \in rows : r.id # row.id /\ r.url # row.url} \cup {row}

(* saveArticles(articles): the statement run for each article in order *)
RECURSIVE saveArticles(_, _)
saveArticles(rows, articles) ==
    IF articles = <<>> THEN rows
    ELSE saveArticles(InsertOrReplace(rows, Row(Head(articles))), Tail(articles))

(* The synchronous start of the scoring worker on each started index:
   async (art, idx) => { ...; const scores = await analyzeArticle(art); ... } *)
StartedArts(started) ==
    [k \in DOMAIN arts |->
        IF k \in started THEN AnalyzeSync(arts[k], hasKey).article ELSE arts[k]]

StartedAz(started) ==
    [k \in DOMAIN az |->
        IF k \in started THEN AnalyzeSync(arts[k], hasKey).az ELSE az[k]]

(* --------------------- the steps of mapWithConcurrency ----------------- *)

(* A bare call of the mapper with a generic worker *)
CallMap ==
    /\ pc = "init"
    /\ \E n \in 0 .. MaxN, lim \in 1 .. MaxLimit :
         \E a \in Arrays(Items, n) : MapCall(a, lim)
    /\ pc' = "mapping"
    /\ UNCHANGED <<narrVars, anVars, fetchVars>>

(* The generic worker's promise fulfils with its value *)
WorkerFulfil(idx) ==
    /\ pc = "mapping"
    /\ wstate[idx] = "running"
    /\ wstate' = [wstate EXCEPT ![idx] = "fulfilled"]
    /\ wval' = [wval EXCEPT ![idx] = {WorkerValue(arr[idx], idx)}]
    /\ UNCHANGED <<narrVars, arr, limit, i, active, results, resolveCount, pc, anVars, fetchVars>>

(* The generic worker's promise rejects *)
WorkerReject(idx) ==
    /\ pc = "mapping"
    /\ wstate[idx] = "running"
    /\ wstate' = [wstate EXCEPT ![idx] = "rejected"]
    /\ UNCHANGED <<narrVars, arr, limit, i, active, results, wval, resolveCount, pc, anVars, fetchVars>>

(* .then(r => { results[idx] = r; }) *)
WorkerThen(idx) ==
    /\ wstate[idx] = "fulfilled"
    /\ results' = ThenWrite(results, idx, CHOOSE r \in wval[idx] : TRUE)
    /\ wstate' = [wstate EXCEPT ![idx] = "thenDone"]
    /\ UNCHANGED <<narrVars, arr, limit, i, active, wval, resolveCount, pc, anVars, fetchVars>>

(* A catch() that stores the error in the slot instead of leaving a hole *)
WorkerCatchStoresError(idx) ==
    /\ wstate[idx] = "rejected"
    /\ wstate' = [wstate EXCEPT ![idx] = "caught"]
    /\ results' = [results EXCEPT ![idx] = {<<"error", idx>>}]
    /\ UNCHANGED <<narrVars, arr, limit, i, active, wval, resolveCount, pc, anVars, fetchVars>>

(* .catch(e => { console.error(...); leave hole }) *)
WorkerCatch(idx) ==
    /\ wstate[idx] = "rejected"
    /\ wstate' = [wstate EXCEPT ![idx] = "caught"]
    /\ UNCHANGED <<narrVars, arr, limit, i, active, results, wval, resolveCount, pc, anVars, fetchVars>>

(* .finally(() => { active--; launch(); }); the workers launch() starts run
   up to their first await *)
WorkerFinally(idx) ==
    /\ wstate[idx] \in {"thenDone", "caught"}
    /\ LET l == Launch(i, active - 1, limit, Len0(arr))
       IN  /\ i' = l.i
           /\ active' = l.active
           /\ wstate' = [k \in DOMAIN wstate |->
                            IF k = idx THEN "settled"
                            ELSE IF k \in l.started THEN "running" ELSE wstate[k]]
           /\ resolveCount' = resolveCount + l.resolve
           /\ arts' = StartedArts(l.started)
           /\ az' = StartedAz(l.started)
    /\ UNCHANGED <<narrVars, arr, limit, results, wval, pc, hasKey, fetchVars>>

InitMap ==
    /\ arr = <<>>
    /\ limit = 1
    /\ i = 0
    /\ active = 0
    /\ results = <<>>
    /\ wstate = <<>>
    /\ wval = <<>>
    /\ resolveCount = 0
    /\ pc = "init"
    /\ arts = <<>>
    /\ az = <<>>
    /\ hasKey = TRUE
    /\ enableFullScrape = TRUE
    /\ ff = <<>>
    /\ enr = EnrIdle
    /\ store = {}
    /\ loaded = <<>>
    /\ clusters = <<>>
    /\ loaded2 = <<>>
    /\ clusters2 = <<>>

NextMap ==
    \/ CallMap
    \/ \E idx \in DOMAIN wstate : WorkerFulfil(idx)
    \/ \E idx \in DOMAIN wstate : WorkerReject(idx)
    \/ \E idx \in DOMAIN wstate : WorkerThen(idx)
    \/ \E idx \in DOMAIN wstate : WorkerCatch(idx)
    \/ \E idx \in DOMAIN wstate : WorkerFinally(idx)

SpecMap == InitMap /\ [][NextMap]_vars

(* A run in which every worker promise eventually settles and the job
   queue runs every reaction that is ready *)
WorkerSettles == \E idx \in DOMAIN wstate : WorkerFulfil(idx) \/ WorkerReject(idx)
ReactionRuns ==
    \E idx \in DOMAIN wstate : WorkerThen(idx) \/ WorkerCatch(idx) \/ WorkerFinally(idx)

SpecMapLive == SpecMap /\ WF_vars(WorkerSettles) /\ WF_vars(ReactionRuns)

(* ------------------- inputs of a stand-alone analysis ------------------ *)

RawDim(score, label, confidence, phrases, reasoning) ==
    [score |-> score, label |-> label, confidence |-> confidence,
     highlightedPhrases |-> phrases, reasoning |-> reasoning]

(* What the response may hold for one dimension: nothing, an empty object,
   a well-formed dimension, one of zeros and empty strings, and two with
   numbers out of range *)
RawDimChoices ==
    {None,
     Some(RawDim(None, None, None, None, None)),
     Some(RawDim(Some(72), Some("left"), Some(80), Some(<<"critics argue">>), Some("r"))),
     Some(RawDim(Some(0), Some(""), Some(0), Some(<<>>), Some(""))),
     Some(RawDim(Some(150), Some("far-right"), Some(170), None, Some("r"))),
     Some(RawDim(Some(-5), Some("poor"), Some(-20), Some(<<"but">>), None))}

WellFormedDim ==
    Some(RawDim(Some(72), Some("left"), Some(80), Some(<<"critics argue">>), Some("r")))

(* What the response may hold as primarySources: no array, an empty one,
   and lists of entries to keep, to normalise and to drop *)
RawSourceLists ==
    {None,
     Some(<<>>),
     Some(<<RawUrl(TRUE, "http", "localhost", "3001", "/api/x", ""),
            RawUrl(TRUE, "", "example.com", "", "/report", ""),
            RawUrl(TRUE, "https", "example.com", "", "/report", "utm=1")>>),
     Some(<<RawUrl(FALSE, "", "", "", "", ""),
            RawUrl(TRUE, "http", "127.0.0.1", "", "/x", ""),
            RawUrl(TRUE, "", "", "", "/api/articles/1", ""),
            RawUrl(TRUE, "https", "other.org", "", "", ""),
            RawUrl(TRUE, "ftp", "other.org", "", "/f", ""),
            RawUrl(TRUE, "http", "localhost", "", "/x", "")>>)}

Payload(dims, overall, sources, analyzedAt) ==
    [ideologicalStance |-> dims["ideologicalStance"],
     factualGrounding |-> dims["factualGrounding"],
     framingChoices |-> dims["framingChoices"],
     emotionalTone |-> dims["emotionalTone"],
     sourceTransparency |-> dims["sourceTransparency"],
     overallBiasLevel |-> overall, primarySources |-> sources, analyzedAt |-> analyzedAt]

(* The dimensions a response may carry: any subset of the dimensions
   well-formed and the others missing, and any choice for one dimension
   beside four others that are all well-formed or all missing *)
DimProfiles ==
    {[d \in Dims |-> IF d \in S THEN WellFormedDim ELSE None] : S \in SUBSET Dims}
    \cup
    {[d \in Dims |-> IF d = e THEN c ELSE base] :
        e \in Dims, c \in RawDimChoices, base \in {None, WellFormedDim}}

(* The objects a response may carry: every dimension profile, and every
   combination of the other fields *)
Payloads ==
    {Payload(dims, Some(40), Some(<<>>), Some("t0")) : dims \in DimProfiles}
    \cup
    {Payload([d \in Dims |-> WellFormedDim], overall, sources, analyzedAt) :
        overall \in {None, Some(0), Some(130), Some(-3)},
        sources \in RawSourceLists,
        analyzedAt \in {None, Some("t0")}}

(* The texts a response may carry *)
ScorerTexts ==
    {EmptyText, GarbageText, JsonText(JsonNull), JsonText(JsonPrimitive)}
    \cup {JsonText(JsonObject(o)) : o \in Payloads}

(* The contents given to a stand-alone analysis: empty, blank, "OK", around
   the 240 and the 10000 character thresholds, with and without blanks *)
ContentInputs ==
    {Text(0, 0, 0, FALSE, "given"), Text(3, 0, 0, FALSE, "given"),
     Text(0, 2, 0, FALSE, "given"), Text(0, 239, 0, FALSE, "given"),
     Text(4, 239, 4, FALSE, "given"), Text(0, 240, 0, FALSE, "given"),
     Text(1, 240, 1, FALSE, "given"), Text(0, 10000, 0, FALSE, "given"),
     Text(0, 10001, 0, FALSE, "given"), Text(2, 12000, 1, FALSE, "given")}

HeadlineInputs == {0, 12}

(* A stand-alone call analyzeArticle(article) *)
AnalyzeCall ==
    /\ pc = "init"
    /\ \E h \in HeadlineInputs, c \in ContentInputs, key \in BOOLEAN :
         LET sync == AnalyzeSync(Article(<<>>, h, c), key)
         IN  /\ arts' = [k \in {0} |-> sync.article]
             /\ az' = [k \in {0} |-> sync.az]
             /\ hasKey' = key
    /\ pc' = "analyzing"
    /\ UNCHANGED <<narrVars, mapVars, fetchVars>>

NextAnalyze ==
    \/ AnalyzeCall
    \/ \E k \in DOMAIN az : ScorerReject(k)
    \/ \E k \in DOMAIN az : \E text \in ScorerTexts : ScorerRespond(k, text)

SpecAnalyze == InitMap /\ [][NextAnalyze]_vars

(* ------------------ inputs of a confidence interval -------------------- *)

(* The scores and the confidences (in hundredths) a validated dimension
   may hold *)
IntervalScores == 0 .. 100
IntervalConfidences == 0 .. 100

(* A BiasScores whose stance dimension holds the given score and confidence *)
ScoredAnalysis(score, confidence) ==
    [getMockBiasScores("ai") EXCEPT
        !.ideologicalStance.score = Some(score),
        !.ideologicalStance.confidence = Some(confidence),
        !.isFallback = Some(FALSE)]

(* A call attachConfidenceIntervals(analysis) *)
IntervalCall ==
    /\ pc = "init"
    /\ \E score \in IntervalScores, confidence \in IntervalConfidences :
         /\ arts' = [k \in {0} |-> Article(<<>>, 12, Text(0, 240, 0, FALSE, "given"))]
         /\ az' = [k \in {0} |->
                     [AzIdle EXCEPT
                         !.pc = "returned",
                         !.result = Some(attachConfidenceIntervals(
                                           ScoredAnalysis(score, confidence)))]]
    /\ pc' = "analyzing"
    /\ UNCHANGED <<narrVars, mapVars, hasKey, fetchVars>>

NextInterval == IntervalCall

SpecInterval == InitMap /\ [][NextInterval]_vars

(* ----------------------- the steps of an ingestion --------------------- *)

(* newsAPI.fetchArticlesByTopic(topic, sources, 15) *)
PAGE_SIZE == 15
(* newsAPI.enrichArticles(newArticles, 4) *)
ENRICH_CONCURRENCY == 4
(* newArticles.slice(0, 10) *)
SCORE_BATCH == 10
(* mapWithConcurrency(articlesToAnalyze, 3, ...) *)
SCORE_CONCURRENCY == 3

(* The articles a GNews response may hold: a long clean one, a truncated one
   with ellipsis and marker, one whose content is only a marker, a short one
   with a description, one longer than MAX_CHARS, one with too short a title *)
RawShapes ==
    {RawArticle(20, 900, FALSE, 0, 60, TRUE),
     RawArticle(20, 260, TRUE, 12, 0, FALSE),
     RawArticle(20, 0, FALSE, 52, 0, FALSE),
     RawArticle(20, 60, FALSE, 0, 30, FALSE),
     RawArticle(20, 10500, FALSE, 0, 0, FALSE),
     RawArticle(5, 900, FALSE, 0, 0, FALSE)}

(* The url of the k-th article of a response: "u1", "u2", ... *)
UrlAt(k) == <<117, 48 + k>>

(* What fetchFullArticle(url) may resolve to: null, or the extracted text
   of the page (at least 300 and at most 18000 characters) *)
PageTexts ==
    {None, Some(Text(0, 400, 0, FALSE, "page")), Some(Text(0, 12000, 0, FALSE, "page"))}

(* The texts the scorer returns during an ingestion *)
FetchScorerTexts ==
    {GarbageText,
     JsonText(JsonObject(Payload([d \in Dims |-> WellFormedDim], Some(40),
         Some(<<RawUrl(TRUE, "", "example.com", "", "/report", "")>>), Some("t0"))))}

(* The handler up to its second await: fetchArticlesByTopic answers, its
   formatArticles fires the page fetches it forgets, enrichArticles starts
   its pool *)
FetchRequest ==
    /\ pc = "init"
    /\ \E n \in 0 .. Min(MaxArts, PAGE_SIZE) : \E shapes \in [1 .. n -> RawShapes] :
         LET raws == [k \in 1 .. n |-> [raw |-> shapes[k], url |-> UrlAt(k)]]
             formatted == formatArticles(raws)
         IN  /\ arts' = formatted
             /\ az' = [k \in DOMAIN formatted |-> AzIdle]
             /\ ff' = FiredScrapes(raws, enableFullScrape)
             /\ enr' = EnrichStart(formatted, ENRICH_CONCURRENCY, enableFullScrape)
    /\ pc' = "enriching"
    /\ UNCHANGED <<narrVars, mapVars, hasKey, enableFullScrape, store>>

(* fetchArticlesByTopic throws: the handler answers 500 *)
FetchFails ==
    /\ pc = "init"
    /\ pc' = "failed"
    /\ UNCHANGED <<narrVars, mapVars, anVars, fetchVars>>

(* The page fetch formatArticles fired for article k settles: its then() *)
ScrapeSettles(k, full) ==
    /\ ff[k] = "inflight"
    /\ ff' = [ff EXCEPT ![k] = "done"]
    /\ arts' = [arts EXCEPT ![k] = Enriched(@, full)]
    /\ UNCHANGED <<narrVars, mapVars, pc, az, hasKey, enableFullScrape, enr, store>>

(* The page fetch of pool worker w settles: run() replaces the content and
   takes the next article of the queue, or ends *)
EnrichFetchSettles(w, full) ==
    /\ pc = "enriching"
    /\ enr.cur[w] # None
    /\ arts' = [arts EXCEPT ![Get(enr.cur[w])] = Enriched(@, full)]
    /\ enr' = IF enr.index < Len(enr.queue)
              THEN [enr EXCEPT !.index = @ + 1, !.cur[w] = Some(enr.queue[enr.index + 1])]
              ELSE [enr EXCEPT !.cur[w] = None]
    /\ UNCHANGED <<narrVars, mapVars, pc, az, hasKey, enableFullScrape, ff, store>>

EnrichDone == \A w \in DOMAIN enr.cur : enr.cur[w] = None

(* enrichArticles resolved and no article was found: the handler answers 404 *)
NoArticles ==
    /\ pc = "enriching"
    /\ EnrichDone
    /\ Len0(arts) = 0
    /\ pc' = "notfound"
    /\ UNCHANGED <<narrVars, mapVars, anVars, fetchVars>>

(* enrichArticles resolved: the handler slices the batch and calls
   mapWithConcurrency, whose launch() starts the first scoring workers *)
StartScoring ==
    /\ pc = "enriching"
    /\ EnrichDone
    /\ Len0(arts) > 0
    /\ LET n == Min(Len0(arts), SCORE_BATCH)
           articlesToAnalyze == [k \in 0 .. n - 1 |-> k]
           l == Launch(0, 0, SCORE_CONCURRENCY, n)
       IN  /\ MapCall(articlesToAnalyze, SCORE_CONCURRENCY)
           /\ arts' = StartedArts(l.started)
           /\ az' = StartedAz(l.started)
    /\ pc' = "scoring"
    /\ UNCHANGED <<narrVars, hasKey, fetchVars>>

(* art.biasScores = scores; if (scores.primarySources?.length)
   art.primarySources = scores.primarySources *)
Attach(art, scores) ==
    [art EXCEPT
        !.biasScores = Some(scores),
        !.primarySources =
            IF scores.primarySources # None /\ Len(Get(scores.primarySources)) > 0
            THEN Get(scores.primarySources) ELSE @]

(* The scoring worker after its await: art.biasScores = scores; the
   primarySources are copied when there are any; return art *)
WorkerAttach(idx) ==
    /\ pc = "scoring"
    /\ wstate[idx] = "running"
    /\ az[arr[idx]].pc = "returned"
    /\ arts' = [arts EXCEPT ![arr[idx]] = Attach(@, Get(az[arr[idx]].result))]
    /\ wstate' = [wstate EXCEPT ![idx] = "fulfilled"]
    /\ wval' = [wval EXCEPT ![idx] = {arr[idx]}]
    /\ UNCHANGED <<narrVars, arr, limit, i, active, results, resolveCount, pc, az, hasKey, fetchVars>>

(* The scoring worker after its await when analyzeArticle threw: the
   worker's promise rejects *)
WorkerRethrow(idx) ==
    /\ pc = "scoring"
    /\ wstate[idx] = "running"
    /\ az[arr[idx]].pc = "threw"
    /\ wstate' = [wstate EXCEPT ![idx] = "rejected"]
    /\ UNCHANGED <<narrVars, arr, limit, i, active, results, wval, resolveCount, pc, anVars, fetchVars>>

(* analyzedArticles, in order *)
AnalyzedArticles == [k \in 1 .. Len0(arr) |-> arts[arr[k - 1]]]

(* mapWithConcurrency resolved: db.saveArticles(analyzedArticles), res.json *)
SaveAndRespond ==
    /\ pc = "scoring"
    /\ resolveCount > 0
    /\ store' = saveArticles(store, AnalyzedArticles)
    /\ pc' = "responded"
    /\ UNCHANGED <<narrVars, mapVars, anVars, enableFullScrape, ff, enr>>

InitFetch ==
    /\ arr = <<>>
    /\ limit = SCORE_CONCURRENCY
    /\ i = 0
    /\ active = 0
    /\ results = <<>>
    /\ wstate = <<>>
    /\ wval = <<>>
    /\ resolveCount = 0
    /\ pc = "init"
    /\ arts = <<>>
    /\ az = <<>>
    /\ hasKey \in BOOLEAN
    /\ enableFullScrape \in BOOLEAN
    /\ ff = <<>>
    /\ enr = EnrIdle
    /\ store = {}
    /\ loaded = <<>>
    /\ clusters = <<>>
    /\ loaded2 = <<>>
    /\ clusters2 = <<>>

NextFetch ==
    \/ FetchRequest
    \/ FetchFails
    \/ \E k \in DOMAIN ff : \E full \in PageTexts : ScrapeSettles(k, full)
    \/ \E w \in DOMAIN enr.cur : \E full \in PageTexts : EnrichFetchSettles(w, full)
    \/ NoArticles
    \/ StartScoring
    \/ \E k \in DOMAIN az : ScorerReject(k)
    \/ \E k \in DOMAIN az : \E text \in FetchScorerTexts : ScorerRespond(k, text)
    \/ \E idx \in DOMAIN wstate : WorkerAttach(idx)
    \/ \E idx \in DOMAIN wstate : WorkerRethrow(idx)
    \/ \E idx \in DOMAIN wstate : WorkerThen(idx)
    \/ \E idx \in DOMAIN wstate : WorkerCatch(idx)
    \/ \E idx \in DOMAIN wstate : WorkerFinally(idx)
    \/ SaveAndRespond

SpecFetch == InitFetch /\ [][NextFetch]_vars

(* ----------------------- the store and the rescore --------------------- *)

(* rowToArticle(row): the JSON text of biasScores and of primarySources is
   parsed back to the value that was serialised; a NULL biasScores stays
   null *)
rowToArticle(row) ==
    [id |-> row.id, url |-> row.url, headline |-> row.headline, content |-> row.content,
     biasScores |-> row.biasScores, primarySources |-> row.primarySources]

(* The texts the scorer returns for a stored article *)
RescoreScorerTexts ==
    {GarbageText,
     JsonText(JsonObject(Payload([d \in Dims |-> WellFormedDim], Some(60),
         Some(<<RawUrl(TRUE, "", "other.org", "", "/study", "")>>), Some("t1"))))}

(* The article a scoring worker of POST /api/articles/fetch leaves for an
   article: unscored when analyzeArticle threw, else with the scores of a
   call whose scorer answered with the given text *)
Scored(article, text) ==
    LET sync == AnalyzeSync(article, TRUE)
    IN  IF sync.az.pc = "threw" THEN sync.article
        ELSE IF sync.az.pc = "returned" THEN Attach(sync.article, Get(sync.az.result))
        ELSE Attach(sync.article, AfterResponse(text))

(* The analysed articles of the batches: of the urls "u1", "u2" and "tP",
   whose id is the id of "u1", with a usual, a long and an empty content *)
AnalysedArticles ==
    LET CollidingUrl == <<116, 80>>
        usual == Text(0, 900, 0, FALSE, "stub")
    IN  {Scored(Article(UrlAt(1), 20, usual), text) : text \in FetchScorerTexts}
        \cup {Scored(Article(UrlAt(1), 20, Text(0, 10500, 0, FALSE, "stub")), GarbageText),
              Scored(Article(CollidingUrl, 20, usual), GarbageText),
              Scored(Article(UrlAt(2), 20, Text(0, 0, 0, FALSE, "stub")), GarbageText),
              Scored(Article(UrlAt(2), 24, Text(0, 900, 0, FALSE, "page")), GarbageText)}

(* The handler is between two requests *)
Idle == pc \in {"init", "saved", "saved again", "rescored", "notfound", "nocontent", "failed"}

(* POST /api/articles/fetch at its end: db.saveArticles(analyzedArticles) *)
SaveFetched ==
    /\ Idle
    /\ \E n \in 1 .. MaxBatch : \E batch \in [0 .. n - 1 -> AnalysedArticles] :
         /\ arts' = batch
         /\ az' = [k \in 0 .. n - 1 |-> AzIdle]
         /\ store' = saveArticles(store, [k \in 1 .. n |-> batch[k - 1]])
    /\ pc' = "saved"
    /\ UNCHANGED <<narrVars, mapVars, hasKey, enableFullScrape, ff, enr>>

(* db.saveArticles of the same articles once more *)
SaveAgain ==
    /\ pc = "saved"
    /\ store' = saveArticles(store, [k \in 1 .. Len0(arts) |-> arts[k - 1]])
    /\ pc' = "saved again"
    /\ UNCHANGED <<narrVars, mapVars, anVars, enableFullScrape, ff, enr>>

(* POST /api/articles/:id/rescore up to its second await: getArticleById,
   the 404 and 400 answers, analyzeArticle up to the scorer call *)
RescoreRequest ==
    /\ Idle
    /\ \E id \in {generateId(UrlAt(1)), generateId(UrlAt(2)), generateId(UrlAt(3))} :
         LET found == {row \in store : row.id = id}
             article == rowToArticle(CHOOSE row \in found : TRUE)
             sync == AnalyzeSync(article, hasKey)
         IN  IF found = {}
             THEN pc' = "notfound" /\ UNCHANGED anVars
             ELSE IF Length(article.content) = 0
             THEN pc' = "nocontent" /\ UNCHANGED anVars
             ELSE /\ pc' = "rescoring"
                  /\ arts' = [k \in {0} |-> sync.article]
                  /\ az' = [k \in {0} |-> sync.az]
                  /\ UNCHANGED hasKey
    /\ UNCHANGED <<narrVars, mapVars, fetchVars>>

(* A rescore that keeps the scores of an article that has some *)
RescoreSaveKeepsScores ==
    /\ pc = "rescoring"
    /\ az[0].pc = "returned"
    /\ arts' = [arts EXCEPT ![0].biasScores = IF @ = None THEN az[0].result ELSE @]
    /\ store' = saveArticles(store, <<arts'[0]>>)
    /\ pc' = "rescored"
    /\ UNCHANGED <<narrVars, mapVars, az, hasKey, enableFullScrape, ff, enr>>

(* article.biasScores = newScores; await db.saveArticles([article]) *)
RescoreSave ==
    /\ pc = "rescoring"
    /\ az[0].pc = "returned"
    /\ arts' = [arts EXCEPT ![0].biasScores = az[0].result]
    /\ store' = saveArticles(store, <<arts'[0]>>)
    /\ pc' = "rescored"
    /\ UNCHANGED <<narrVars, mapVars, az, hasKey, enableFullScrape, ff, enr>>

(* The catch of the rescore handler: analyzeArticle threw, or the
   statement of saveArticles failed and wrote nothing: 500 *)
RescoreFails ==
    /\ pc = "rescoring"
    /\ az[0].pc \in {"threw", "returned"}
    /\ pc' = "failed"
    /\ UNCHANGED <<narrVars, mapVars, anVars, fetchVars>>

NextStore ==
    \/ SaveFetched
    \/ SaveAgain
    \/ RescoreRequest
    \/ pc = "rescoring" /\ ScorerReject(0)
    \/ pc = "rescoring" /\ \E text \in RescoreScorerTexts : ScorerRespond(0, text)
    \/ RescoreSave
    \/ RescoreFails

SpecStore == InitMap /\ [][NextStore]_vars

(* ------------------------ a call of enrichArticles --------------------- *)

(* The contents of the articles given to a call: short, long with a
   truncation indicator, long without one *)
EnrichContents ==
    {Text(0, 400, 0, FALSE, "stub"), Text(0, 900, 0, TRUE, "stub"),
     Text(0, 900, 0, FALSE, "stub")}

(* enrichArticles(articles, concurrency) up to its await: the queue is
   built and each pool worker runs up to its first page fetch *)
EnrichCall ==
    /\ pc = "init"
    /\ \E n \in 0 .. MaxQueue, concurrency \in 1 .. MaxPool :
         \E contents \in [0 .. n - 1 -> EnrichContents] :
            LET articles == [k \in 0 .. n - 1 |-> Article(UrlAt(k + 1), 20, contents[k])]
            IN  /\ arts' = articles
                /\ az' = [k \in 0 .. n - 1 |-> AzIdle]
                /\ ff' = [k \in 0 .. n - 1 |-> "none"]
                /\ enr' = EnrichStart(articles, concurrency, enableFullScrape)
    /\ pc' = "enriching"
    /\ UNCHANGED <<narrVars, mapVars, hasKey, enableFullScrape, store>>

(* await Promise.all(workers): every pool worker has left its loop *)
EnrichResolves ==
    /\ pc = "enriching"
    /\ EnrichDone
    /\ pc' = "enriched"
    /\ UNCHANGED <<narrVars, mapVars, anVars, fetchVars>>

NextEnrich ==
    \/ EnrichCall
    \/ \E w \in DOMAIN enr.cur : \E full \in PageTexts : EnrichFetchSettles(w, full)
    \/ EnrichResolves

SpecEnrich == InitFetch /\ [][NextEnrich]_vars

(* ------------------------------ narratives ----------------------------- *)

(* The text headline + " " + content of an article is kept by the set of
   the keywords of extractTopics and detectFramingType it contains. *)

(* commonTopics of extractTopics, in its order *)
commonTopics ==
    <<"immigration", "economy", "healthcare", "education", "climate", "politics",
      "election", "covid", "ukraine", "china", "technology", "biden", "trump",
      "congress", "supreme court", "ai", "crypto">>

(* text.toLowerCase().includes(word): a text that contains "ukraine"
   contains "ai" *)
Includes(words, w) == w \in words \/ (w = "ai" /\ "ukraine" \in words)

(* extractTopics(text) *)
extractTopics(words) ==
    LET found(t) == Includes(words, t)
        foundTopics == SelectSeq(commonTopics, found)
    IN  IF Len(foundTopics) > 0 THEN foundTopics ELSE <<"general">>

(* biasScores?.<dimension>.score of an article *)
ScoreOf(article, d) ==
    IF article.biasScores = None THEN None ELSE Get(article.biasScores)[d].score

(* s && ... for a number: undefined, null and 0 are falsy *)
AndNum(s) == s # {} /\ s # {0}

(* detectFramingType(article) *)
detectFramingType(article) ==
    LET content == article.words
        stance == ScoreOf(article, "ideologicalStance")
        tone == ScoreOf(article, "emotionalTone")
    IN  IF Includes(content, "cost") \/ Includes(content, "economy") \/ Includes(content, "budget")
        THEN IF AndNum(stance) /\ Get(stance) > 60
             THEN "economic-concern" ELSE "economic-impact"
        ELSE IF Includes(content, "security") \/ Includes(content, "safety") \/ Includes(content, "threat")
        THEN "security-focused"
        ELSE IF Includes(content, "rights") \/ Includes(content, "humanitarian") \/ Includes(content, "justice")
        THEN "rights-based"
        ELSE IF Includes(content, "policy") \/ Includes(content, "legislation") \/ Includes(content, "regulation")
        THEN "policy-focused"
        ELSE IF AndNum(tone) /\ Get(tone) < 40 THEN "alarmist"
        ELSE IF AndNum(tone) /\ Get(tone) > 70 THEN "neutral-reporting"
        ELSE "advocacy-oriented"

(* The character codes of the topics and the framing types *)
CharCodes(w) ==
    CASE w = "immigration" -> <<105, 109, 109, 105, 103, 114, 97, 116, 105, 111, 110>>
      [] w = "economy" -> <<101, 99, 111, 110, 111, 109, 121>>
      [] w = "healthcare" -> <<104, 101, 97, 108, 116, 104, 99, 97, 114, 101>>
      [] w = "education" -> <<101, 100, 117, 99, 97, 116, 105, 111, 110>>
      [] w = "climate" -> <<99, 108, 105, 109, 97, 116, 101>>
      [] w = "politics" -> <<112, 111, 108, 105, 116, 105, 99, 115>>
      [] w = "election" -> <<101, 108, 101, 99, 116, 105, 111, 110>>
      [] w = "covid" -> <<99, 111, 118, 105, 100>>
      [] w = "ukraine" -> <<117, 107, 114, 97, 105, 110, 101>>
      [] w = "china" -> <<99, 104, 105, 110, 97>>
      [] w = "technology" -> <<116, 101, 99, 104, 110, 111, 108, 111, 103, 121>>
      [] w = "biden" -> <<98, 105, 100, 101, 110>>
      [] w = "trump" -> <<116, 114, 117, 109, 112>>
      [] w = "congress" -> <<99, 111, 110, 103, 114, 101, 115, 115>>
      [] w = "supreme court" -> <<115, 117, 112, 114, 101, 109, 101, 32, 99, 111, 117, 114, 116>>
      [] w = "ai" -> <<97, 105>>
      [] w = "crypto" -> <<99, 114, 121, 112, 116, 111>>
      [] w = "general" -> <<103, 101, 110, 101, 114, 97, 108>>
      [] w = "economic-concern" -> <<101, 99, 111, 110, 111, 109, 105, 99, 45, 99, 111, 110, 99, 101, 114, 110>>
      [] w = "economic-impact" -> <<101, 99, 111, 110, 111, 109, 105, 99, 45, 105, 109, 112, 97, 99, 116>>
      [] w = "security-focused" -> <<115, 101, 99, 117, 114, 105, 116, 121, 45, 102, 111, 99, 117, 115, 101, 100>>
      [] w = "rights-based" -> <<114, 105, 103, 104, 116, 115, 45, 98, 97, 115, 101, 100>>
      [] w = "policy-focused" -> <<112, 111, 108, 105, 99, 121, 45, 102, 111, 99, 117, 115, 101, 100>>
      [] w = "alarmist" -> <<97, 108, 97, 114, 109, 105, 115, 116>>
      [] w = "neutral-reporting" -> <<110, 101, 117, 116, 114, 97, 108, 45, 114, 101, 112, 111, 114, 116, 105, 110, 103>>
      [] w = "advocacy-oriented" -> <<97, 100, 118, 111, 99, 97, 99, 121, 45, 111, 114, 105, 101, 110, 116, 101, 100>>

(* `${primaryTopic}_${framingType}` as character codes *)
ClusterKeyCodes(topic, framingType) ==
    CharCodes(topic) \o <<95>> \o CharCodes(framingType)

(* a ^ b on naturals *)
RECURSIVE Xor(_, _)
Xor(a, b) ==
    IF a = 0 THEN b
    ELSE IF b = 0 THEN a
    ELSE ((a + b) % 2) + 2 * Xor(a \div 2, b \div 2)

(* hash ^= charCode; hash = Math.imul(hash, 16777619): the 32 bits of hash
   are kept as two 16-bit halves, 16777619 being 256 * 65536 + 403 *)
FnvStep(hash, char) ==
    LET lo == Xor(hash.lo, char)
        low == lo * 403
    IN  [hi |-> (hash.hi * 403 + lo * 256 + (low \div 65536)) % 65536,
         lo |-> low % 65536]

(* for (let i = 0; i < clusterKey.length; i++): the iterations from at.i
   up to i = to, at holding i and hash; a run of several iterations is its
   first half followed by its second half *)
RECURSIVE FnvLoop(_, _, _)
FnvLoop(codes, at, to) ==
    IF to - at.i <= 0 THEN at
    ELSE IF to - at.i = 1
    THEN [i |-> to, hash |-> FnvStep(at.hash, codes[to])]
    ELSE FnvLoop(codes, FnvLoop(codes, at, at.i + ((to - at.i) \div 2)), to)

(* (hash >>> 0).toString(36), as the sequence of its digits *)
RECURSIVE ToBase36Wide(_)
ToBase36Wide(hash) ==
    IF hash.hi = 0 THEN ToBase36(hash.lo)
    ELSE LET rest == (hash.hi % 36) * 65536 + hash.lo
         IN  ToBase36Wide([hi |-> hash.hi \div 36, lo |-> rest \div 36]) \o <<rest % 36>>

(* generateClusterId(clusterKey): 2166136261 is 33052 * 65536 + 40389 *)
generateClusterId(codes) ==
    LET start == [i |-> 0, hash |-> [hi |-> 33052, lo |-> 40389]]
        id == ToBase36Wide(FnvLoop(codes, start, Len(codes)).hash)
    IN  SubSeq(id, 1, Min(Len(id), 8))

(* generateClusterTitle(topic, framingType), as the pair of its two parts *)
generateClusterTitle(topic, framingType) ==
    LET topicTitle ==
            CASE topic = "immigration" -> "Immigration Policy"
              [] topic = "economy" -> "Economic Policy"
              [] topic = "healthcare" -> "Healthcare Reform"
              [] topic = "climate" -> "Climate Change"
              [] topic = "technology" -> "Tech Regulation"
              [] topic = "education" -> "Education Policy"
              [] topic = "general" -> "Breaking News"
              [] OTHER -> topic
        framingTitle ==
            CASE framingType = "economic-concern" -> "Economic Impact Focus"
              [] framingType = "economic-impact" -> "Cost-Benefit Analysis"
              [] framingType = "security-focused" -> "Security Implications"
              [] framingType = "rights-based" -> "Human Rights Perspective"
              [] framingType = "policy-focused" -> "Policy Implementation"
              [] framingType = "alarmist" -> "Crisis Framing"
              [] framingType = "neutral-reporting" -> "Factual Reporting"
              [] framingType = "advocacy-oriented" -> "Opinion-Driven Coverage"
              [] OTHER -> framingType
    IN  <<topicTitle, framingTitle>>

(* An article as clusterNarratives reads it: publishedAt is a number of
   time units *)
ScoredArticle(id, words, source, publishedAt, biasScores) ==
    [id |-> id, words |-> words, source |-> source, publishedAt |-> publishedAt,
     biasScores |-> biasScores]

(* A cluster as clusterNarratives creates it; key is the property of the
   clusters object that holds it *)
NewCluster(topic, framingType) ==
    [key |-> <<topic, framingType>>,
     id |-> generateClusterId(ClusterKeyCodes(topic, framingType)),
     topic |-> topic,
     framingType |-> framingType,
     title |-> generateClusterTitle(topic, framingType),
     articles |-> <<>>,
     representativeArticle |-> None,
     biasDistribution |-> [left |-> 0, center |-> 0, right |-> 0],
     avgScores |-> [d \in Dims |-> 0],
     commonPhrases |-> <<>>,
     sourceCount |-> <<>>,
     timeSpan |-> [earliest |-> None, latest |-> None]]

(* A tally that leaves the center out *)
TallyNoCenter(dist, ideologyScore) ==
    IF ideologyScore < 40 THEN [dist EXCEPT !.left = @ + 1]
    ELSE IF ideologyScore > 60 THEN [dist EXCEPT !.right = @ + 1]
    ELSE dist

(* if (ideologyScore < 40) left++; else if (ideologyScore > 60) right++;
   else center++ *)
Tally(dist, ideologyScore) ==
    IF ideologyScore < 40 THEN [dist EXCEPT !.left = @ + 1]
    ELSE IF ideologyScore > 60 THEN [dist EXCEPT !.right = @ + 1]
    ELSE [dist EXCEPT !.center = @ + 1]

(* counts[k] = (counts[k] || 0) + 1 *)
CountUp(counts, k) ==
    IF k \in DOMAIN counts THEN [counts EXCEPT ![k] = @ + 1] ELSE counts @@ (k :> 1)

(* highlightedPhrases?.forEach(phrase => commonPhrases[phrase] = ... + 1) *)
RECURSIVE CountPhrases(_, _)
CountPhrases(counts, phrases) ==
    IF phrases = <<>> THEN counts
    ELSE CountPhrases(CountUp(counts, Head(phrases)), Tail(phrases))

(* The updates of a cluster for one more member *)
AddToCluster(cluster, article) ==
    [cluster EXCEPT
        !.articles = Append(@, article),
        !.biasDistribution =
            Tally(@, OrNum(ScoreOf(article, "ideologicalStance"), 50)),
        !.commonPhrases =
            CountPhrases(@, OrArr(Get(article.biasScores).ideologicalStance.highlightedPhrases, <<>>)),
        !.sourceCount = CountUp(@, article.source),
        !.timeSpan =
            [earliest |-> IF @.earliest = None \/ article.publishedAt < Get(@.earliest)
                          THEN Some(article.publishedAt) ELSE @.earliest,
             latest |-> IF @.latest = None \/ article.publishedAt > Get(@.latest)
                        THEN Some(article.publishedAt) ELSE @.latest]]

(* The position of clusters[clusterKey], 0 when there is none *)
KeyIndex(cl, key) ==
    IF \E j \in 1 .. Len(cl) : cl[j].key = key
    THEN CHOOSE j \in 1 .. Len(cl) : cl[j].key = key
    ELSE 0

(* The body of articles.forEach in clusterNarratives; the clusters object
   is the sequence of its values in insertion order *)
ClusterArticle(cl, article) ==
    IF article.biasScores = None THEN cl
    ELSE LET topics == extractTopics(article.words)
             primaryTopic == OrStr(Some(topics[1]), "general")
             framingType == detectFramingType(article)
             pos == KeyIndex(cl, <<primaryTopic, framingType>>)
             base == IF pos = 0 THEN Append(cl, NewCluster(primaryTopic, framingType)) ELSE cl
             at == IF pos = 0 THEN Len(cl) + 1 ELSE pos
         IN  [base EXCEPT ![at] = AddToCluster(@, article)]

(* articles.forEach: the calls for the articles behind position at.k up to
   position to, at holding the position and the clusters object; a run of
   several calls is its first half followed by its second half *)
RECURSIVE Accumulate(_, _, _)
Accumulate(list, at, to) ==
    IF to - at.k <= 0 THEN at
    ELSE IF to - at.k = 1
    THEN [k |-> to, clusters |-> ClusterArticle(at.clusters, list[to])]
    ELSE Accumulate(list, Accumulate(list, at, at.k + ((to - at.k) \div 2)), to)

(* cluster.articles.reduce((acc, article) => acc + (biasScore?.score || 0), 0) *)
RECURSIVE SumScores(_, _)
SumScores(list, d) ==
    IF list = <<>> THEN 0
    ELSE OrNum(ScoreOf(Head(list), d), 0) + SumScores(Tail(list), d)

(* Math.round(sum / articleCount) *)
AverageScore(cluster, d) ==
    LET sum == SumScores(cluster.articles, d)
        articleCount == Len(cluster.articles)
    IN  (2 * sum + articleCount) \div (2 * articleCount)

(* The distance of findRepresentativeArticle: the sum over the dimensions
   of the squared difference to the cluster average *)
Distance(article, avgScores) ==
    LET sq(d) == (OrNum(ScoreOf(article, d), 0) - avgScores[d])
                    * (OrNum(ScoreOf(article, d), 0) - avgScores[d])
    IN  sq("ideologicalStance") + sq("factualGrounding") + sq("framingChoices")
            + sq("emotionalTone") + sq("sourceTransparency")

(* A comparison that lets a later article of equal distance win *)
CloserOrEqual(distance, smallestDistance) ==
    smallestDistance = None \/ distance <= Get(smallestDistance)

(* distance < smallestDistance, smallestDistance being Infinity at first *)
Closer(distance, smallestDistance) ==
    smallestDistance = None \/ distance < Get(smallestDistance)

(* cluster.articles.forEach of findRepresentativeArticle *)
RECURSIVE RepresentativeLoop(_, _, _, _)
RepresentativeLoop(list, avgScores, bestArticle, smallestDistance) ==
    IF list = <<>> THEN bestArticle
    ELSE LET article == Head(list)
             distance == Distance(article, avgScores)
         IN  IF article.biasScores = None
             THEN RepresentativeLoop(Tail(list), avgScores, bestArticle, smallestDistance)
             ELSE IF Closer(distance, smallestDistance)
             THEN RepresentativeLoop(Tail(list), avgScores, Some(article), Some(distance))
             ELSE RepresentativeLoop(Tail(list), avgScores, bestArticle, smallestDistance)

(* findRepresentativeArticle(cluster) *)
findRepresentativeArticle(cluster) ==
    RepresentativeLoop(cluster.articles, cluster.avgScores,
                       IF Len(cluster.articles) > 0 THEN Some(cluster.articles[1]) ELSE None,
                       None)

(* The post-processing of one cluster: averages, then the representative *)
PostProcess(cluster) ==
    LET averaged == [cluster EXCEPT !.avgScores = [d \in Dims |-> AverageScore(cluster, d)]]
    IN  [averaged EXCEPT !.representativeArticle = findRepresentativeArticle(averaged)]

(* cluster.articles.length * Object.keys(cluster.sourceCount).length *)
Relevance(cluster) == Len(cluster.articles) * Cardinality(DOMAIN cluster.sourceCount)

(* A filter that keeps singletons *)
HasAnyArticle(cluster) == Len(cluster.articles) >= 1

(* cluster.articles.length >= 2 *)
HasMultipleArticles(cluster) == Len(cluster.articles) >= 2

(* The stable sort by scoreB - scoreA: a cluster comes behind every cluster
   of a greater relevance and every earlier cluster of the same relevance *)
SortByRelevance(list) ==
    LET ahead(k) == {j \in 1 .. Len(list) :
                        \/ Relevance(list[j]) > Relevance(list[k])
                        \/ (Relevance(list[j]) = Relevance(list[k]) /\ j < k)}
    IN  [p \in 1 .. Len(list) |->
            list[CHOOSE k \in 1 .. Len(list) : Cardinality(ahead(k)) = p - 1]]

TOP_CLUSTERS == 8

(* clusterNarratives(articles) *)
clusterNarratives(list) ==
    LET accumulated == Accumulate(list, [k |-> 0, clusters |-> <<>>], Len(list)).clusters
        processed == [j \in 1 .. Len(accumulated) |-> PostProcess(accumulated[j])]
        kept == SelectSeq(processed, HasMultipleArticles)
        ranked == SortByRelevance(kept)
    IN  SubSeq(ranked, 1, Min(Len(ranked), TOP_CLUSTERS))

(* ----------------------- inputs of the clustering ---------------------- *)

(* The biasScores of a stored article, by its stance and tone scores and
   its stance phrases *)
NarrScores(stance, tone, phrases) ==
    Some([getMockBiasScores("ai") EXCEPT
            !.ideologicalStance.score = Some(stance),
            !.ideologicalStance.highlightedPhrases = Some(phrases),
            !.emotionalTone.score = Some(tone),
            !.isFallback = Some(FALSE)])

(* The articles a list is drawn from: three of one (topic, framing) bucket
   with stances left, center and right, two of the economic buckets, one
   without any keyword, one of a bucket of its own and one unscored *)
NarrShapes ==
    {[words |-> {"climate", "policy"}, source |-> "A", publishedAt |-> 1,
      biasScores |-> NarrScores(30, 50, <<"but">>)],
     [words |-> {"climate", "policy"}, source |-> "B", publishedAt |-> 2,
      biasScores |-> NarrScores(50, 50, <<>>)],
     [words |-> {"climate", "policy"}, source |-> "A", publishedAt |-> 2,
      biasScores |-> NarrScores(70, 50, <<"but", "critics argue">>)],
     [words |-> {"economy"}, source |-> "B", publishedAt |-> 3,
      biasScores |-> NarrScores(70, 80, <<>>)],
     [words |-> {"economy", "security"}, source |-> "A", publishedAt |-> 1,
      biasScores |-> NarrScores(0, 0, <<>>)],
     [words |-> {}, source |-> "C", publishedAt |-> 3,
      biasScores |-> NarrScores(0, 0, <<>>)],
     [words |-> {"ukraine"}, source |-> "B", publishedAt |-> 2,
      biasScores |-> NarrScores(50, 30, <<>>)],
     [words |-> {"climate", "policy"}, source |-> "C", publishedAt |-> 1,
      biasScores |-> None]}

(* The article of a shape, its id being its position in the store *)
ShapedArticle(id, shape) ==
    ScoredArticle(id, shape.words, shape.source, shape.publishedAt, shape.biasScores)

(* ORDER BY publishedAt DESC holds of the list *)
InLoadOrder(list) ==
    \A k \in 1 .. Len(list) - 1 : list[k].publishedAt >= list[k + 1].publishedAt

(* ORDER BY publishedAt DESC over rows in the given order: a row comes
   behind every row of a later publication time and every earlier row of
   the same publication time *)
OrderByPublishedAt(rows) ==
    LET ahead(k) == {j \in 1 .. Len(rows) :
                        \/ rows[j].publishedAt > rows[k].publishedAt
                        \/ (rows[j].publishedAt = rows[k].publishedAt /\ j < k)}
    IN  [p \in 1 .. Len(rows) |->
            rows[CHOOSE k \in 1 .. Len(rows) : Cardinality(ahead(k)) = p - 1]]

(* Every list of at most MaxFeed articles in the order of loadArticles *)
SmallFeeds ==
    UNION {{list \in {[k \in 1 .. n |-> ShapedArticle(k, shapes[k])] :
                         shapes \in [1 .. n -> NarrShapes]} : InLoadOrder(list)} :
              n \in 0 .. MaxFeed}

(* Lists of many buckets: a bucket for each pair of a topic and a framing
   keyword *)
WideTopics == <<"immigration", "healthcare", "climate", "technology", "crypto">>
WideFrames == <<"security", "rights", "policy">>
WideSources == <<"A", "B", "C">>

(* Bucket j has 1, 2 or 3 members, in a cycle that starts at sizes *)
WideSize(j, sizes) == 1 + ((j + sizes) % 3)

(* The member m of bucket j: the members of a bucket come from one source
   or, with spread, from different ones; all the first members have one
   publication time, all the second members an earlier one *)
WideMember(id, j, m, spread) ==
    ScoredArticle(id,
                  {WideTopics[1 + ((j - 1) % Len(WideTopics))],
                   WideFrames[1 + ((j - 1) \div Len(WideTopics))]},
                  IF spread THEN WideSources[m] ELSE "A",
                  Len(WideSources) + 1 - m,
                  NarrScores(20 * m + 10, 50, <<>>))

(* n buckets: their first members, then their second members, then their
   third members *)
WideFeed(n, sizes, spread) ==
    LET bucket(k) == 1 + ((k - 1) % n)
        member(k) == 1 + ((k - 1) \div n)
        every == [k \in 1 .. 3 * n |-> WideMember(k, bucket(k), member(k), spread)]
        has(a) == member(a.id) <= WideSize(bucket(a.id), sizes)
    IN  SelectSeq(every, has)

WideFeeds ==
    {WideFeed(n, sizes, spread) :
        n \in {Len(WideTopics) * Len(WideFrames) - 3 * k : k \in 0 .. 2},
        sizes \in 0 .. 2, spread \in BOOLEAN}

(* The lists db.loadArticles() may return *)
NarrativeFeeds == SmallFeeds \cup WideFeeds

(* The same articles in the orders a later db.loadArticles() may return
   them: articles of equal publication time come in any order *)
Reorderings(list) ==
    LET reversed == [k \in 1 .. Len(list) |-> list[Len(list) + 1 - k]]
        rotated == IF list = <<>> THEN list ELSE Tail(list) \o <<Head(list)>>
    IN  {list, OrderByPublishedAt(reversed), OrderByPublishedAt(rotated)}

(* GET /api/narratives *)
ListNarratives ==
    /\ pc = "init"
    /\ \E list \in NarrativeFeeds :
         /\ loaded' = list
         /\ clusters' = clusterNarratives(list)
    /\ pc' = "listed"
    /\ UNCHANGED <<mapVars, anVars, fetchVars, loaded2, clusters2>>

(* GET /api/narratives once more over the same articles *)
ListNarrativesAgain ==
    /\ pc = "listed"
    /\ \E list \in Reorderings(loaded) :
         /\ loaded2' = list
         /\ clusters2' = clusterNarratives(list)
    /\ pc' = "listed twice"
    /\ UNCHANGED <<mapVars, anVars, fetchVars, loaded, clusters>>

NextNarratives ==
    \/ ListNarratives
    \/ ListNarrativesAgain

SpecNarratives == InitMap /\ [][NextNarratives]_vars

(* ------------------------ GET /api/narratives/:id ---------------------- *)

(* detectFramingShift(article): a highlighted phrase of the model includes
   a shift indicator exactly when it is one *)
detectFramingShift(article) ==
    IF article.biasScores = None THEN "no-analysis"
    ELSE LET phrases == OrArr(Get(article.biasScores).ideologicalStance.highlightedPhrases, <<>>)
             shiftIndicators == {"however", "but", "despite", "although", "nevertheless",
                                 "on the other hand", "critics argue", "supporters claim"}
         IN  IF \E p \in 1 .. Len(phrases) : phrases[p] \in shiftIndicators
             THEN "narrative-pivot" ELSE "consistent-framing"

(* generateFramingTimeline(articles): articles.sort(...) orders the array
   it is given by publication time, articles of one time staying in their
   order, and returns that same array, which map() reads; sorted is the
   array after the call *)
generateFramingTimeline(articles) ==
    LET ahead(k) == {j \in 1 .. Len(articles) :
                        \/ articles[j].publishedAt < articles[k].publishedAt
                        \/ (articles[j].publishedAt = articles[k].publishedAt /\ j < k)}
        sorted == [p \in 1 .. Len(articles) |->
                      articles[CHOOSE k \in 1 .. Len(articles) : Cardinality(ahead(k)) = p - 1]]
    IN  [sorted |-> sorted,
         timeline |-> [p \in 1 .. Len(sorted) |->
                          [timestamp |-> sorted[p].publishedAt,
                           source |-> sorted[p].source,
                           id |-> sorted[p].id,
                           keyFramingShift |-> detectFramingShift(sorted[p]),
                           biasSnapshot |->
                               IF sorted[p].biasScores = None THEN None
                               ELSE Some([ideological |-> ScoreOf(sorted[p], "ideologicalStance"),
                                          emotional |-> ScoreOf(sorted[p], "emotionalTone")])]]]

(* addFramingAnalysis(cluster): the spread copies the reference to
   cluster.articles, the array generateFramingTimeline then sorts *)
addFramingAnalysis(cluster) ==
    LET scored == SelectSeq(cluster.articles, LAMBDA a : a.biasScores # None)
        sources == {scored[m].source : m \in 1 .. Len(scored)}
        of(source) == SelectSeq(scored, LAMBDA a : a.source = source)
        phrasesOf(a) == OrArr(Get(a.biasScores).ideologicalStance.highlightedPhrases, <<>>)
        sourceAnalysis ==
            [source \in sources |->
                [articleCount |-> Len(of(source)),
                 avgBiasScores |-> [d \in Dims |-> AverageScore([articles |-> of(source)], d)],
                 distinctivePhrases |->
                     UNION {{phrasesOf(a)[p] : p \in 1 .. Len(phrasesOf(a))} :
                               a \in {of(source)[m] : m \in 1 .. Len(of(source))}}]]
        evolution == generateFramingTimeline(cluster.articles)
    IN  [cluster EXCEPT !.articles = evolution.sorted]
            @@ [sourceAnalysis |-> sourceAnalysis, framingEvolution |-> evolution.timeline]

(* GET /api/narratives/:clusterId over the store of the list request: the
   cluster of that id with its framing analysis, or 404 *)
NarrativeDetail ==
    /\ pc = "listed"
    /\ \E clusterId \in {clusters[j].id : j \in 1 .. Len(clusters)} \cup {<<>>} :
         LET again == clusterNarratives(loaded)
             found == {j \in 1 .. Len(again) : again[j].id = clusterId}
             first == CHOOSE j \in found : \A k \in found : j <= k
         IN  /\ loaded2' = loaded
             /\ clusters2' = IF found = {} THEN <<>> ELSE <<addFramingAnalysis(again[first])>>
             /\ pc' = IF found = {} THEN "notfound" ELSE "detailed"
    /\ UNCHANGED <<mapVars, anVars, fetchVars, loaded, clusters>>

NextDetail ==
    \/ ListNarratives
    \/ NarrativeDetail

SpecDetail == InitMap /\ [][NextDetail]_vars

(* ------------------- properties of mapWithConcurrency ------------------ *)

(* Workers that were started and whose promise has not settled yet *)
Running == {idx \in DOMAIN wstate : wstate[idx] = "running"}

(* Workers that were started and whose finally() has not run yet *)
InChain == {idx \in DOMAIN wstate : wstate[idx] \notin {"idle", "settled"}}

Fulfilled(idx) == wval[idx] # {}

Rejected(idx) ==
    \/ wstate[idx] \in {"rejected", "caught"}
    \/ wstate[idx] = "settled" /\ wval[idx] = {}

Resolved == resolveCount > 0

(* C1: at every moment of a mapWithConcurrency run the number of workers
   started and not yet settled is at most limit (the counter active, which
   also counts settled workers whose finally() is pending, is the number of
   workers in their chain and is at most limit too). *)
C1_AtMostLimit ==
    /\ Cardinality(Running) <= limit
    /\ active = Cardinality(InChain)
    /\ active <= limit

(* C1 witness: the limit binds, as many workers run as the limit allows
   while items are still waiting to be started. *)
C1_Witness ==
    /\ pc = "mapping"
    /\ Cardinality(Running) = limit
    /\ i < Len0(arr)
    /\ limit > 1

(* C2: when the mapper resolves, the slot of every fulfilled worker holds the
   value that worker produced for arr[idx], whatever the completion order,
   and a slot only ever changes in the then() of its own worker. *)
C2_SlotsByIndex ==
    /\ [](Resolved => \A idx \in DOMAIN wstate :
                Fulfilled(idx) => results[idx] = {WorkerValue(arr[idx], idx)})
    /\ [][\A k \in DOMAIN results :
            (k \in DOMAIN results' /\ results'[k] # results[k])
                => (wstate[k] = "fulfilled" /\ wstate'[k] = "thenDone")]_vars

(* C2 witness: resolved after two workers completed out of input order
   (index 1 wrote its slot while index 0 was still running). *)
C2_Witness ==
    /\ pc = "mapping"
    /\ Len0(arr) >= 2
    /\ wstate[0] = "running"
    /\ wstate[1] = "thenDone"
    /\ results[1] = {WorkerValue(arr[1], 1)}

(* C3: a rejecting worker does not reject or block the batch: while the
   batch is unresolved some worker is still in its chain, once every worker
   has gone through its chain the batch is resolved, and at resolution the
   slot of a rejected worker is empty while every fulfilled sibling holds
   its own result. *)
C3_FailureIsolated ==
    /\ (pc = "mapping" /\ ~Resolved) => InChain # {}
    /\ (pc = "mapping" /\ \A idx \in DOMAIN wstate : wstate[idx] = "settled") => resolveCount = 1
    /\ Resolved => \A idx \in DOMAIN wstate :
          /\ wstate[idx] = "settled"
          /\ Rejected(idx) => results[idx] = {}
          /\ Fulfilled(idx) => results[idx] = {WorkerValue(arr[idx], idx)}

(* C3 witness: a batch resolved although an early item was rejected, with a
   later item started after that rejection and fulfilled. *)
C3_Witness ==
    /\ pc = "mapping"
    /\ Resolved
    /\ limit = 1
    /\ Len0(arr) >= 2
    /\ Rejected(0)
    /\ Fulfilled(1)

(* ----------------------- properties of analyzeArticle ------------------ *)

Called(k) == az[k].pc # "idle"
Returned(k) == az[k].pc = "returned"
Scores(k) == Get(az[k].result)
Status(k) == Scores(k).analysisStatus

(* The precondition of analyzeArticle: headline and content are not empty *)
Precondition(k) == arts[k].headline > 0 /\ Length(Get(az[k].given)) > 0

(* C6: an article with non-empty headline and content whose trimmed content
   is shorter than 240 characters gets a result tagged fallback-empty and
   the scorer is never invoked for it. *)
C6_ShortContentSkipsScorer ==
    \A k \in DOMAIN az :
        (Called(k) /\ Precondition(k) /\ TrimLength(Get(az[k].given)) < 240)
            => /\ Returned(k)
               /\ Status(k) = Some("fallback-empty")
               /\ az[k].calls = 0
               /\ az[k].resp = None

(* C6 witness: a content of 240 characters or more of which fewer than 240
   remain after trimming was answered with fallback-empty. *)
C6_Witness ==
    \E k \in DOMAIN az :
        /\ Returned(k) /\ Precondition(k)
        /\ Length(Get(az[k].given)) >= 240
        /\ TrimLength(Get(az[k].given)) < 240
        /\ Status(k) = Some("fallback-empty")

(* C7: in every BiasScores analyzeArticle returns, isFallback is true if and
   only if analysisStatus is not 'ai'. *)
C7_FallbackIffNotAi ==
    \A k \in DOMAIN az :
        Returned(k) => ((Scores(k).isFallback = Some(TRUE)) <=> (Status(k) # Some("ai")))

(* C7 witness: a scorer response was parsed and the result is tagged 'ai'
   with isFallback false. *)
C7_Witness ==
    \E k \in DOMAIN az :
        /\ Returned(k)
        /\ Status(k) = Some("ai")
        /\ Scores(k).isFallback = Some(FALSE)

(* An article analyzeArticle sends to the scorer *)
Scorable(k) ==
    Called(k) /\ Precondition(k) /\ TrimLength(Get(az[k].given)) >= 240

Answer(k) == Get(az[k].resp)

(* C8 as stated: for an article with non-empty headline and at least 240
   trimmed characters analyzeArticle never throws, and its result is tagged
   fallback-api exactly when the scorer call failed, fallback-parse exactly
   when the call returned a text JSON.parse rejects, and 'ai' exactly when
   the call returned a text JSON.parse accepts. *)
C8_TagsByScorerOutcome ==
    \A k \in DOMAIN az :
        Scorable(k) =>
            /\ az[k].pc # "threw"
            /\ Returned(k) =>
                 /\ (Status(k) = Some("fallback-api")) <=> Answer(k).failed
                 /\ (Status(k) = Some("fallback-parse")) <=>
                        (~Answer(k).failed /\ Answer(k).text.kind # "json")
                 /\ (Status(k) = Some("ai")) <=>
                        (~Answer(k).failed /\ Answer(k).text.kind = "json")

(* The text is JSON and its value is not null *)
ParsedNonNull(text) == text.kind = "json" /\ text.value.kind # "null"

(* C8 amended: as C8, the text 'null' counting with the texts that are not
   parsed: fallback-parse exactly when the call returned a text that is not
   JSON or is the JSON null, 'ai' exactly when it returned the JSON of any
   other value. *)
C8_TagsByScorerOutcomeAmended ==
    \A k \in DOMAIN az :
        Scorable(k) =>
            /\ az[k].pc # "threw"
            /\ Returned(k) =>
                 /\ (Status(k) = Some("fallback-api")) <=> Answer(k).failed
                 /\ (Status(k) = Some("fallback-parse")) <=>
                        (~Answer(k).failed /\ ~ParsedNonNull(Answer(k).text))
                 /\ (Status(k) = Some("ai")) <=>
                        (~Answer(k).failed /\ ParsedNonNull(Answer(k).text))

(* C8 witness: the scorer returned the text 'null' and the result is tagged
   fallback-parse. *)
C8_Witness ==
    \E k \in DOMAIN az :
        /\ Scorable(k) /\ Returned(k)
        /\ ~Answer(k).failed
        /\ Answer(k).text = JsonText(JsonNull)
        /\ Status(k) = Some("fallback-parse")

(* The object lacks one of the five dimensions, overallBiasLevel or
   primarySources *)
DeviatesFromShape(o) ==
    \/ \E d \in Dims : o[d] = None
    \/ o.overallBiasLevel = None
    \/ o.primarySources = None

(* C9: a returned payload that deviates from the BiasScores shape (valid
   JSON that lacks a dimension, overallBiasLevel or primarySources) is
   treated as a parse failure: the result is tagged fallback-parse, never
   'ai', and nothing is thrown. *)
C9_ShapeDeviationIsParseFailure ==
    \A k \in DOMAIN az :
        (/\ Scorable(k) /\ Returned(k)
         /\ ~Answer(k).failed
         /\ Answer(k).text.kind = "json"
         /\ Answer(k).text.value.kind = "obj"
         /\ DeviatesFromShape(Answer(k).text.value.obj))
            => Status(k) = Some("fallback-parse")

(* Every field of a BiasScores is set, and no reasoning is empty *)
SchemaComplete(b) ==
    /\ \A d \in Dims :
          /\ b[d].score # None
          /\ b[d].label # None
          /\ b[d].confidence # None
          /\ b[d].highlightedPhrases # None
          /\ b[d].reasoning # None
          /\ b[d].reasoning # Some("")
    /\ b.overallBiasLevel # None
    /\ b.primarySources # None
    /\ b.analyzedAt # None

(* C10: every BiasScores analyzeArticle returns holds all five dimensions
   with score, label, confidence, phrase list and non-empty reasoning, and
   overallBiasLevel, primarySources and analyzedAt; a dimension missing
   from a parsed response has score 50 and reasoning 'Analysis incomplete'. *)
C10_SchemaComplete ==
    \A k \in DOMAIN az :
        Returned(k) =>
            /\ SchemaComplete(Scores(k))
            /\ (Status(k) = Some("ai")) =>
                  \A d \in Dims :
                      Answer(k).text.value.obj[d] = None =>
                          /\ Scores(k)[d].score = Some(50)
                          /\ Scores(k)[d].reasoning = Some("Analysis incomplete")

(* C10 witness: a parsed response with a dimension missing and another one
   present was returned as 'ai'. *)
C10_Witness ==
    \E k \in DOMAIN az :
        /\ Returned(k)
        /\ Status(k) = Some("ai")
        /\ Answer(k).text.value.kind = "obj"
        /\ Answer(k).text.value.obj["emotionalTone"] = None
        /\ Answer(k).text.value.obj["ideologicalStance"] # None
        /\ Scores(k)["emotionalTone"].score = Some(50)

(* ------------------------ properties of an ingestion ------------------- *)

(* C4: once the scoring stage of POST /api/articles/fetch has run, every
   article of the batch that is saved and returned has a non-null
   biasScores, whatever its scoring attempt did. *)
C4_ScoredArticlesHaveScores ==
    pc = "responded" =>
        /\ \A row \in store : row.biasScores # None
        /\ \A idx \in DOMAIN arr : arts[arr[idx]].biasScores # None

(* C5: enrichment is complete before scoring begins: in the step that
   starts the first scoring calls of the batch, no page fetch that can
   still replace the content of an article of the batch is in flight. *)
C5_EnrichmentCompleteBeforeScoring ==
    [][(pc = "enriching" /\ pc' = "scoring")
          => \A idx \in DOMAIN arr' : ff'[arr'[idx]] # "inflight"]_vars

(* --------------------- properties of the validation -------------------- *)

(* C11: in every BiasScores analyzeArticle returns, every dimension has
   0 <= score <= 100 and 0 <= confidence <= 1, and 0 <= overallBiasLevel
   <= 100, whatever numbers the raw payload holds. *)
C11_ScoresInRange ==
    \A k \in DOMAIN az :
        Returned(k) =>
            /\ \A d \in Dims :
                  /\ Get(Scores(k)[d].score) \in 0 .. 100
                  /\ Get(Scores(k)[d].confidence) \in 0 .. 100
            /\ Get(Scores(k).overallBiasLevel) \in 0 .. 100

(* C11 witness: raw numbers above and below the ranges were returned
   clamped. *)
C11_Witness ==
    \E k \in DOMAIN az :
        /\ Returned(k)
        /\ Status(k) = Some("ai")
        /\ Answer(k).text.value.kind = "obj"
        /\ \E d \in Dims :
              LET raw == Answer(k).text.value.obj[d]
              IN  /\ raw # None
                  /\ Get(raw).score = Some(-5)
                  /\ Get(raw).confidence = Some(-20)
                  /\ Scores(k)[d].score = Some(0)
                  /\ Scores(k)[d].confidence = Some(0)

(* C12: validation is a clamp: a raw numeric score s (0 included) is
   returned as min(100, max(0, s)), a raw numeric confidence c as
   min(1, max(0, c)) and a raw numeric overallBiasLevel v as
   min(100, max(0, v)); the defaults are for absent fields only. *)
C12_ValidationIsClamp ==
    \A k \in DOMAIN az :
        (Returned(k) /\ Status(k) = Some("ai")) =>
            LET o == Answer(k).text.value.obj
            IN  /\ \A d \in Dims :
                      o[d] # None =>
                          /\ Get(o[d]).score # None =>
                                Scores(k)[d].score =
                                    Some(Max(0, Min(100, Get(Get(o[d]).score))))
                          /\ Get(o[d]).confidence # None =>
                                Scores(k)[d].confidence =
                                    Some(Max(0, Min(100, Get(Get(o[d]).confidence))))
                /\ o.overallBiasLevel # None =>
                      Scores(k).overallBiasLevel =
                          Some(Max(0, Min(100, Get(o.overallBiasLevel))))

(* C13: every confidence interval has 0 <= lower <= score <= upper <= 100
   and width = upper - lower, for every score in [0, 100] and every
   confidence in [0, 1]. *)
C13_IntervalAroundScore ==
    \A k \in DOMAIN az :
        Returned(k) =>
            \A d \in Dims :
                Scores(k)[d].confidenceInterval # None =>
                    LET ci == Get(Scores(k)[d].confidenceInterval)
                        score == Get(Scores(k)[d].score)
                    IN  /\ 0 <= ci.lower
                        /\ ci.lower <= score
                        /\ score <= ci.upper
                        /\ ci.upper <= 100
                        /\ ci.width = ci.upper - ci.lower

(* C13 witness: an interval cut at 0: score 3 with confidence 0 has nominal
   width 40, lower 0 and upper 23. *)
C13_Witness ==
    \E k \in DOMAIN az :
        /\ Returned(k)
        /\ Scores(k)["ideologicalStance"].score = Some(3)
        /\ Scores(k)["ideologicalStance"].confidence = Some(0)
        /\ Scores(k)["ideologicalStance"].confidenceInterval =
              Some([lower |-> 0, upper |-> 23, width |-> 23])

(* C14: every BiasScores analyzeArticle returns, in every outcome tier,
   carries a confidence interval on each of its five dimensions. *)
C14_EveryTierHasIntervals ==
    \A k \in DOMAIN az :
        Returned(k) =>
            \A d \in Dims : Scores(k)[d].confidenceInterval # None

(* A loopback host: localhost or a loopback address *)
LoopbackHost(host) == host \in {"localhost", "127.0.0.1"}

(* C15: the sanitized primarySources has at most 15 entries, no duplicate,
   no path-relative entry, only http / https URLs, and no URL whose host is
   a loopback host (localhost with or without a port, or a loopback
   address such as 127.0.0.1). *)
C15_SourcesSanitized ==
    \A k \in DOMAIN az :
        Returned(k) =>
            LET s == Get(Scores(k).primarySources)
            IN  /\ Len(s) <= 15
                /\ \A m, n \in 1 .. Len(s) : m # n => s[m] # s[n]
                /\ \A m \in 1 .. Len(s) :
                      /\ s[m].scheme \in {"http", "https"}
                      /\ s[m].host # ""
                      /\ ~LoopbackHost(s[m].host)

(* C16: in every BiasScores analyzeArticle returns, the label of each
   dimension is a member of the label enum of that dimension. *)
C16_LabelsInEnum ==
    \A k \in DOMAIN az :
        Returned(k) =>
            \A d \in Dims : Get(Scores(k)[d].label) \in LabelEnum(d)

(* --------------------- properties of the clustering -------------------- *)

(* C17: for every cluster clusterNarratives returns, biasDistribution.left
   + center + right equals the number of articles of the cluster. *)
C17_DistributionSumsToMembers ==
    /\ \A j \in 1 .. Len(clusters) :
          clusters[j].biasDistribution.left + clusters[j].biasDistribution.center
              + clusters[j].biasDistribution.right = Len(clusters[j].articles)
    /\ \A j \in 1 .. Len(clusters2) :
          clusters2[j].biasDistribution.left + clusters2[j].biasDistribution.center
              + clusters2[j].biasDistribution.right = Len(clusters2[j].articles)

(* C17 witness: a returned cluster of three members, one left, one center
   and one right. *)
C17_Witness ==
    \E j \in 1 .. Len(clusters) :
        /\ Len(clusters[j].articles) = 3
        /\ clusters[j].biasDistribution = [left |-> 1, center |-> 1, right |-> 1]

(* The (topic, framing) bucket of a scored article *)
BucketOf(article) ==
    <<extractTopics(article.words)[1], detectFramingType(article)>>

(* The positions of the scored articles of a bucket, the buckets of a list,
   and the relevance memberCount * distinctSourceCount of a bucket *)
BucketMembers(list, key) ==
    {k \in 1 .. Len(list) : list[k].biasScores # None /\ BucketOf(list[k]) = key}

Buckets(list) ==
    {BucketOf(list[k]) : k \in {n \in 1 .. Len(list) : list[n].biasScores # None}}

BucketRelevance(list, key) ==
    Cardinality(BucketMembers(list, key))
        * Cardinality({list[k].source : k \in BucketMembers(list, key)})

(* The buckets of at least 2 members *)
NarrativeBuckets(list) ==
    {key \in Buckets(list) : Cardinality(BucketMembers(list, key)) >= 2}

MemberIds(cluster) == {cluster.articles[m].id : m \in 1 .. Len(cluster.articles)}

(* C18: the returned list is exactly the (at most 8) highest-relevance
   clusters among those of at least 2 members, in non-increasing order of
   relevance = memberCount * distinctSourceCount: no returned cluster has
   fewer than 2 members and no omitted cluster of at least 2 members has a
   relevance greater than a returned one; three articles of one bucket and
   a singleton give exactly one cluster, of 3 members. *)
C18_TopClustersByRelevance ==
    pc # "init" =>
        LET keys == NarrativeBuckets(loaded)
            returned == {clusters[j].key : j \in 1 .. Len(clusters)}
        IN  /\ Len(clusters) = Min(Cardinality(keys), 8)
            /\ Cardinality(returned) = Len(clusters)
            /\ returned \subseteq keys
            /\ \A j \in 1 .. Len(clusters) :
                  /\ Len(clusters[j].articles) >= 2
                  /\ Cardinality(MemberIds(clusters[j])) = Len(clusters[j].articles)
                  /\ MemberIds(clusters[j]) =
                        {loaded[k].id : k \in BucketMembers(loaded, clusters[j].key)}
                  /\ Relevance(clusters[j]) = BucketRelevance(loaded, clusters[j].key)
                  /\ j < Len(clusters) => Relevance(clusters[j]) >= Relevance(clusters[j + 1])
                  /\ \A key \in keys \ returned :
                        BucketRelevance(loaded, key) <= Relevance(clusters[j])
            /\ (/\ Cardinality(Buckets(loaded)) = 2
                /\ \E key \in Buckets(loaded) : Cardinality(BucketMembers(loaded, key)) = 3
                /\ \E key \in Buckets(loaded) : Cardinality(BucketMembers(loaded, key)) = 1)
                  => Len(clusters) = 1 /\ Len(clusters[1].articles) = 3

(* C18 witness: more than 8 buckets of at least 2 members and some
   singletons were clustered; 8 clusters are returned, in strictly
   decreasing relevance somewhere, and a cluster of 2 members is left out. *)
C18_Witness ==
    /\ pc # "init"
    /\ Cardinality(NarrativeBuckets(loaded)) > 8
    /\ Buckets(loaded) # NarrativeBuckets(loaded)
    /\ Len(clusters) = 8
    /\ Relevance(clusters[1]) > Relevance(clusters[8])

(* The sum over the five dimensions of (own score - average)^2 *)
SquaredDeviation(article, avgScores) ==
    LET dev(d) == Get(Get(article.biasScores)[d].score) - avgScores[d]
    IN  dev("ideologicalStance") * dev("ideologicalStance")
            + dev("factualGrounding") * dev("factualGrounding")
            + dev("framingChoices") * dev("framingChoices")
            + dev("emotionalTone") * dev("emotionalTone")
            + dev("sourceTransparency") * dev("sourceTransparency")

(* C19: for every returned cluster, representativeArticle is the member
   whose sum over the five dimensions of (own score - cluster avgScore)^2
   is minimal, the first such member in the member order. *)
C19_RepresentativeIsNearest ==
    \A j \in 1 .. Len(clusters) :
        LET c == clusters[j]
            dev(m) == SquaredDeviation(c.articles[m], c.avgScores)
        IN  \E m \in 1 .. Len(c.articles) :
                /\ c.representativeArticle = Some(c.articles[m])
                /\ \A n \in 1 .. Len(c.articles) :
                      /\ dev(m) <= dev(n)
                      /\ n < m => dev(m) < dev(n)

(* C19 witness: a cluster whose second and third members are equally
   near the average and nearer than the first; the second one represents
   it. *)
C19_Witness ==
    \E j \in 1 .. Len(clusters) :
        LET c == clusters[j]
        IN  /\ Len(c.articles) = 3
            /\ c.representativeArticle = Some(c.articles[2])
            /\ SquaredDeviation(c.articles[2], c.avgScores)
                  = SquaredDeviation(c.articles[3], c.avgScores)
            /\ SquaredDeviation(c.articles[2], c.avgScores)
                  < SquaredDeviation(c.articles[1], c.avgScores)

(* C20: two invocations of clusterNarratives over the same set of scored
   articles, in the same or in a different order, return the same cluster
   ids with the same members in the same ranking. *)
C20_SameClustersInAnyOrder ==
    pc = "listed twice" =>
        /\ Len(clusters2) = Len(clusters)
        /\ \A j \in 1 .. Len(clusters) :
              /\ clusters2[j].id = clusters[j].id
              /\ MemberIds(clusters2[j]) = MemberIds(clusters[j])

(* The scores of a clustered member *)
StanceOfMember(article) == Get(Get(article.biasScores).ideologicalStance.score)
ToneOfMember(article) == Get(Get(article.biasScores).emotionalTone.score)

HasKeyword(article, keywords) == \E w \in keywords : Includes(article.words, w)

(* The priority cascade: economic, security, rights, policy keywords in
   this order, then the tone thresholds *)
FramingCascade(article) ==
    IF HasKeyword(article, {"cost", "economy", "budget"})
    THEN IF StanceOfMember(article) > 60 THEN "economic-concern" ELSE "economic-impact"
    ELSE IF HasKeyword(article, {"security", "safety", "threat"}) THEN "security-focused"
    ELSE IF HasKeyword(article, {"rights", "humanitarian", "justice"}) THEN "rights-based"
    ELSE IF HasKeyword(article, {"policy", "legislation", "regulation"}) THEN "policy-focused"
    ELSE IF ToneOfMember(article) < 40 THEN "alarmist"
    ELSE IF ToneOfMember(article) > 70 THEN "neutral-reporting"
    ELSE "advocacy-oriented"

(* C21: the framing type under which clusterNarratives files an article is
   the one of the priority cascade: an economic keyword gives
   economic-concern when the stance exceeds 60 and economic-impact
   otherwise, else a security, a rights, a policy keyword decide, else the
   tone does, every tone below 40 (0 included) giving alarmist, a tone
   above 70 neutral-reporting and anything else advocacy-oriented. *)
C21_FramingIsCascade ==
    \A j \in 1 .. Len(clusters) :
        \A m \in 1 .. Len(clusters[j].articles) :
            clusters[j].framingType = FramingCascade(clusters[j].articles[m])

(* C22: for every returned cluster, left, right and center are the numbers
   of members whose stance score s has s < 40 (0 included), s > 60 and
   40 <= s <= 60. *)
C22_TallyByStance ==
    \A j \in 1 .. Len(clusters) :
        LET members == clusters[j].articles
            count(lo, hi) == Cardinality({m \in 1 .. Len(members) :
                                 /\ StanceOfMember(members[m]) >= lo
                                 /\ StanceOfMember(members[m]) <= hi})
        IN  /\ clusters[j].biasDistribution.left = count(0, 39)
            /\ clusters[j].biasDistribution.center = count(40, 60)
            /\ clusters[j].biasDistribution.right = count(61, 100)

(* ------------------ properties of the article content ------------------ *)

(* C27: every article saved by POST /api/articles/fetch is saved with the
   content its biasScores were computed from: the content of the stored
   row is the content that was put in the scoring request of the article. *)
C27_SavedContentIsScoredContent ==
    pc = "responded" =>
        \A idx \in DOMAIN arr :
            az[arr[idx]].sent # None =>
                \A row \in store :
                    row.id = arts[arr[idx]].id => row.content = Get(az[arr[idx]].sent)

(* C28: analyzeArticle leaves the article it is given unchanged: after the
   call, of any content length, the content of the article is the content
   it was called with. *)
C28_AnalyzeLeavesArticle ==
    pc = "analyzing" =>
        \A k \in DOMAIN az :
            /\ arts[k].content = Get(az[k].given)
            /\ arts[k].biasScores = None
            /\ arts[k].primarySources = <<>>

(* --------------------- properties of enrichArticles -------------------- *)

(* An article needs enrichment: a truncation marker, or a content shorter
   than 800 characters *)
NeedsFullText(article) == article.content.ind \/ Length(article.content) < 800

(* The articles the pool workers are fetching *)
InFetch == {Get(enr.cur[w]) : w \in {v \in DOMAIN enr.cur : enr.cur[v] # None}}

(* The call queues each article that needs enrichment, once *)
QueuesWhatNeedsIt ==
    (pc = "init" /\ pc' = "enriching") =>
        /\ {enr'.queue[p] : p \in 1 .. Len(enr'.queue)}
              = {k \in DOMAIN arts' : NeedsFullText(arts'[k])}
        /\ \A p, q \in 1 .. Len(enr'.queue) : enr'.queue[p] = enr'.queue[q] => p = q

(* The articles handed out so far are the first index ones of the queue,
   each in the hands of at most one pool worker *)
HandedOutInQueueOrder ==
    /\ enr.index <= Len(enr.queue)
    /\ InFetch \subseteq {enr.queue[p] : p \in 1 .. enr.index}
    /\ \A v, w \in DOMAIN enr.cur :
          enr.cur[v] # None /\ enr.cur[v] = enr.cur[w] => v = w

(* A pool worker whose page fetch settles changes the content of its own
   article only, and takes the next article of the queue if there is one,
   whatever the fetch gave *)
WorkerTakesNext ==
    \A w \in DOMAIN enr.cur :
        (pc = "enriching" /\ w \in DOMAIN enr'.cur /\ enr'.cur[w] # enr.cur[w]) =>
            /\ \A v \in DOMAIN enr.cur \ {w} : enr'.cur[v] = enr.cur[v]
            /\ \A k \in DOMAIN arts \ {Get(enr.cur[w])} : arts'[k] = arts[k]
            /\ \/ arts'[Get(enr.cur[w])] = arts[Get(enr.cur[w])]
               \/ /\ arts'[Get(enr.cur[w])].content.origin = "page"
                  /\ 5 * Length(arts'[Get(enr.cur[w])].content)
                        > 6 * Length(arts[Get(enr.cur[w])].content)
            /\ IF enr.index < Len(enr.queue)
               THEN /\ enr'.index = enr.index + 1
                    /\ enr'.cur[w] = Some(enr.queue[enr.index + 1])
               ELSE /\ enr'.index = enr.index
                    /\ enr'.cur[w] = None

(* The call resolves when the whole queue was handed out and no page fetch
   is left *)
ResolvesAfterQueue ==
    pc = "enriched" => enr.index = Len(enr.queue) /\ InFetch = {}

(* C26: enrichArticles(articles, c), c >= 1, hands each article that needs
   enrichment (truncation marker, or content shorter than 800 characters)
   to exactly one pool worker, none twice and none skipped, and resolves
   only after every queued article was processed; a page fetch that fails
   leaves the content of its article unchanged and does not stop the
   processing of the remaining ones. *)
C26_EachArticleEnrichedOnce ==
    /\ [][QueuesWhatNeedsIt /\ WorkerTakesNext]_vars
    /\ [](HandedOutInQueueOrder /\ ResolvesAfterQueue)

(* C26 amended: the same, when full-content scraping is enabled; when it is
   disabled the call queues nothing and leaves every article as it is. *)
C26_EachArticleEnrichedOnceAmended ==
    /\ [][(enableFullScrape => QueuesWhatNeedsIt) /\ WorkerTakesNext]_vars
    /\ [](HandedOutInQueueOrder /\ ResolvesAfterQueue)
    /\ [](~enableFullScrape => enr.queue = <<>>)

(* C26 witness: a call with more queued articles than pool workers has
   resolved; a page fetch failed on the first article, whose content is
   unchanged, and the last article has the text of its page. *)
C26_Witness ==
    /\ pc = "enriched"
    /\ Len(enr.queue) = MaxQueue
    /\ Cardinality(DOMAIN enr.cur) = MaxPool
    /\ arts[enr.queue[1]].content.origin = "stub"
    /\ arts[enr.queue[MaxQueue]].content.origin = "page"

(* ------------------ termination of mapWithConcurrency ------------------ *)

(* A worker is started from idle only, and only at the index i *)
StartedOnce ==
    \A idx \in DOMAIN wstate :
        (wstate'[idx] = "running" /\ wstate[idx] # "running") =>
            wstate[idx] = "idle" /\ i <= idx /\ idx < i'

(* C25: for every limit >= 1 and every length N >= 0, if every worker
   eventually settles then the promise mapWithConcurrency returned
   eventually resolves, exactly once, and only after each of the N items
   was started exactly once and has settled. *)
C25_ResolvesOnceAfterAll ==
    /\ (pc = "mapping") ~> Resolved
    /\ [](resolveCount <= 1)
    /\ [](Resolved => i = Len0(arr) /\ \A idx \in DOMAIN wstate : wstate[idx] = "settled")
    /\ [][pc = "mapping" => StartedOnce]_vars

(* C25 witness: a call over MaxN items with a limit below MaxN has resolved
   after a worker failed. *)
C25_Witness ==
    /\ Resolved
    /\ Len0(arr) = MaxN
    /\ limit < MaxN
    /\ \E idx \in DOMAIN wstate : Rejected(idx)

(* ------------------- properties of the cluster detail ------------------ *)

(* The cluster of the list response that a detail response is about *)
ListedAs(detail) == CHOOSE j \in 1 .. Len(clusters) : clusters[j].id = detail.id

(* C29: addFramingAnalysis only adds sourceAnalysis and framingEvolution:
   the articles of a cluster-detail response are the articles of the same
   cluster in the list response over the same store, in the same order,
   and framingEvolution has one entry per member, in non-decreasing
   publication time. *)
C29_DetailKeepsMembers ==
    pc = "detailed" =>
        LET detail == clusters2[1]
            listed == clusters[ListedAs(detail)]
        IN  /\ detail.articles = listed.articles
            /\ \A f \in DOMAIN listed : detail[f] = listed[f]
            /\ Len(detail.framingEvolution) = Len(listed.articles)
            /\ \A p \in 1 .. Len(detail.framingEvolution) - 1 :
                  detail.framingEvolution[p].timestamp
                      <= detail.framingEvolution[p + 1].timestamp

(* ----------------------- properties of the store ---------------------- *)

(* The ids of the articles of the batch at hand and, for an id, the last
   article of the batch with it *)
BatchIds == {arts[k].id : k \in DOMAIN arts}
LastWithId(id) ==
    arts[CHOOSE k \in DOMAIN arts :
            /\ arts[k].id = id
            /\ \A j \in DOMAIN arts : arts[j].id = id => j <= k]

(* C23: after any sequence of saveArticles calls the store holds at most
   one article per id and per url, every id being the id generateId gives
   for the url; a save is an upsert, the stored article of an id being the
   last one saved with that id and the other articles staying as they are,
   and saving the same batch once more leaves the store as it is. *)
C23_IdempotentUpsert ==
    /\ [](\A r, s \in store : (r.id = s.id \/ r.url = s.url) => r = s)
    /\ [](\A r \in store : r.id = generateId(r.url))
    /\ [][pc' = "saved" =>
            /\ \A id \in BatchIds' :
                  \E r \in store' :
                      /\ r.id = id
                      /\ r.url = LastWithId(id)'.url
                      /\ r.content = LastWithId(id)'.content
                      /\ r.headline = LastWithId(id)'.headline
                      /\ r.biasScores = LastWithId(id)'.biasScores
                      /\ r.primarySources = LastWithId(id)'.primarySources
            /\ {r \in store' : r.id \notin BatchIds'} = {r \in store : r.id \notin BatchIds'}]_vars
    /\ [][(pc = "saved" /\ pc' = "saved again") => store' = store]_vars

(* C23 witness: a batch of two articles of one id and two urls was saved
   twice over a store that held an article of that id and another one. *)
C23_Witness ==
    /\ pc = "saved again"
    /\ Len0(arts) = 2
    /\ arts[0].id = arts[1].id
    /\ arts[0].url # arts[1].url
    /\ Cardinality(store) = 2
    /\ \E r \in store : r.url = arts[1].url

(* C24: a rescore of a stored article replaces its stored biasScores by
   exactly the new scoring result and changes no other stored article;
   the requests answered 404 (no such article), 400 (no content) and 500
   (scoring or saving failed) leave the store unchanged. *)
C24_RescoreReplacesScores ==
    /\ [][(pc = "rescoring" /\ pc' = "rescored") =>
            /\ \E r \in store' :
                  /\ {s \in store' : s.id = arts[0].id} = {r}
                  /\ r.biasScores = az[0].result
            /\ {s \in store' : s.id # arts[0].id} = {s \in store : s.id # arts[0].id}]_vars
    /\ [][pc' \in {"rescoring", "notfound", "nocontent", "failed"} => store' = store]_vars

(* C24 witness: an article scored by the scorer was scored again, with
   another result, next to another stored article. *)
C24_Witness ==
    /\ pc = "rescored"
    /\ Cardinality(store) = 2
    /\ \E r \in store :
          /\ r.id = arts[0].id
          /\ r.biasScores = az[0].result
          /\ Get(r.biasScores).analysisStatus = Some("ai")
          /\ r.primarySources # <<>>
          /\ r.primarySources # Get(Get(r.biasScores).primarySources)

(* C30: after any sequence of fetch and rescore operations, every stored
   article whose biasScores.primarySources is not empty has its own
   primarySources equal to it. *)
C30_SourcesFollowScores ==
    \A r \in store :
        (/\ r.biasScores # None
         /\ Get(r.biasScores).primarySources # None
         /\ Get(Get(r.biasScores).primarySources) # <<>>)
            => r.primarySources = Get(Get(r.biasScores).primarySources)

====
